---------------------------- MODULE Spec2Model ----------------------------
(***************************************************************************)
(* A model of the sql2sparql query translation engine.                     *)
(*                                                                         *)
(* Query texts and output texts are sequences of one-character strings,    *)
(* so that the string scanning and the regular expressions of the source  *)
(* are modelled by what they do on the characters.  Str(t) turns such a    *)
(* sequence into a TLA+ string, for reading and for comparing outputs.     *)
(***************************************************************************)
EXTENDS Integers, Sequences, FiniteSets, TLC

VARIABLES
    converter,     \* the mutable fields of one SQL2SPARQLConverter and its sub-converters
    input,    \* the descriptor of the query text handed to the last convert()
    out,      \* what the last convert() returned
    prev,     \* input and output of the convert() before the last one
    calls     \* number of convert() calls made on the instance

vars == <<converter, input, out, prev, calls>>

-----------------------------------------------------------------------------
(* The methods of the program and the longer steps of its parsing are      *)
(* applied through Call, which is defined after them.  TLC's coverage       *)
(* statistics expand a definition at each of its uses; applied through     *)
(* Call, each of these definitions is expanded once.  F applies FDef.      *)

RECURSIVE Call(_, _)
ToUpperC(c) == Call("ToUpperC", <<c>>)
ToLowerC(c) == Call("ToLowerC", <<c>>)
Upper(s) == Call("Upper", <<s>>)
Lower(s) == Call("Lower", <<s>>)
Title(s) == Call("Title", <<s>>)
Slice(s, a, b) == Call("Slice", <<s, a, b>>)
From(s, a) == Call("From", <<s, a>>)
Str(s) == Call("Str", <<s>>)
MinOf(S) == Call("MinOf", <<S>>)
MaxOf(S) == Call("MaxOf", <<S>>)
StartsAt(s, p, i) == Call("StartsAt", <<s, p, i>>)
StartsAtI(s, p, i) == Call("StartsAtI", <<s, p, i>>)
StartsWith(s, p) == Call("StartsWith", <<s, p>>)
EndsWith(s, p) == Call("EndsWith", <<s, p>>)
FindFrom(s, p, i) == Call("FindFrom", <<s, p, i>>)
Find(s, p) == Call("Find", <<s, p>>)
Contains(s, p) == Call("Contains", <<s, p>>)
SkipIn(s, set, i) == Call("SkipIn", <<s, set, i>>)
SkipNotIn(s, set, i) == Call("SkipNotIn", <<s, set, i>>)
SkipBackIn(s, set, i) == Call("SkipBackIn", <<s, set, i>>)
StripSet(s, set) == Call("StripSet", <<s, set>>)
LStripSet(s, set) == Call("LStripSet", <<s, set>>)
RStripSet(s, set) == Call("RStripSet", <<s, set>>)
Strip(s) == Call("Strip", <<s>>)
SplitOn(s, sep) == Call("SplitOn", <<s, sep>>)
SplitWs(s) == Call("SplitWs", <<s>>)
Replace(s, old, new) == Call("Replace", <<s, old, new>>)
Join(parts, sep) == Call("Join", <<parts, sep>>)
IsDigits(s) == Call("IsDigits", <<s>>)
NatText(n) == Call("NatText", <<n>>)
DigitPartEnd(s, i) == Call("DigitPartEnd", <<s, i>>)
FloatBody(t) == Call("FloatBody", <<t>>)
IsFloat(s) == Call("IsFloat", <<s>>)
DictHas(d, k) == Call("DictHas", <<d, k>>)
DictGet(d, k, default) == Call("DictGet", <<d, k, default>>)
DictSet(d, k, v) == Call("DictSet", <<d, k, v>>)
InSeq(x, seq) == Call("InSeq", <<x, seq>>)
AppendNew(seq, x) == Call("AppendNew", <<seq, x>>)
FindKwWs(s, kw, i) == Call("FindKwWs", <<s, kw, i>>)
FindAnyI(s, kws, i) == Call("FindAnyI", <<s, kws, i>>)
ExtractClause(sql, start, ends, toEnd) == Call("ExtractClause", <<sql, start, ends, toEnd>>)
KwSepEnd(s, kw, i) == Call("KwSepEnd", <<s, kw, i>>)
ReSplitKwFrom(s, kw, start) == Call("ReSplitKwFrom", <<s, kw, start>>)
ReSplitKw(s, kw) == Call("ReSplitKw", <<s, kw>>)
ParenDepth(text, i) == Call("ParenDepth", <<text, i>>)
SplitParensFrom(text, delimiter, i) == Call("SplitParensFrom", <<text, delimiter, i>>)
SplitRespectingParens(text, delimiter) == Call("SplitRespectingParens", <<text, delimiter>>)
FindOpAt(e, op) == Call("FindOpAt", <<e, op>>)
IsDecimalText(s) == Call("IsDecimalText", <<s>>)
FuncMatch(s) == Call("FuncMatch", <<s>>)
ParseExpression(expr_in) == Call("ParseExpression", <<expr_in>>)
SuffixVar(var_mappings, col_name, default) == Call("SuffixVar", <<var_mappings, col_name, default>>)
ToSparqlExpression(node, var_mappings) == Call("ToSparqlExpression", <<node, var_mappings>>)
ReplaceDecimals(s, i) == Call("ReplaceDecimals", <<s, i>>)
DottedWords(s, i) == Call("DottedWords", <<s, i>>)
Words(s, i) == Call("Words", <<s, i>>)
AddSimpleColumns(columns, matches) == Call("AddSimpleColumns", <<columns, matches>>)
ExtractColumnsFromExpr(expr) == Call("ExtractColumnsFromExpr", <<expr>>)
CreateTriplePattern(table, column, var) == Call("CreateTriplePattern", <<table, column, var>>)
FromTableOf(current_from_table) == Call("FromTableOf", <<current_from_table>>)
ColumnVar(col) == Call("ColumnVar", <<col>>)
ColumnPattern(col, var, current_from_table) == Call("ColumnPattern", <<col, var, current_from_table>>)
UnpackFails(col) == Call("UnpackFails", <<col>>)
MapCalcColumns(columns, var_mappings, patterns, current_from_table) == Call("MapCalcColumns", <<columns, var_mappings, patterns, current_from_table>>)
ProcessCalculatedColumn(expr_in, var_mappings, patterns, current_from_table) == Call("ProcessCalculatedColumn", <<expr_in, var_mappings, patterns, current_from_table>>)
FindLastIn(s, c, a, b) == Call("FindLastIn", <<s, c, a, b>>)
LineEnd(s, i) == Call("LineEnd", <<s, i>>)
AliasAfterAs(s, i) == Call("AliasAfterAs", <<s, i>>)
ProcessAggregateFunction(expr, var_mappings, patterns, current_from_table) == Call("ProcessAggregateFunction", <<expr, var_mappings, patterns, current_from_table>>)
ProcessRegularColumn(col_in, var_mappings, patterns, current_from_table) == Call("ProcessRegularColumn", <<col_in, var_mappings, patterns, current_from_table>>)
IsCalculatedExpression(expr) == Call("IsCalculatedExpression", <<expr>>)
IsAggregateFunction(expr) == Call("IsAggregateFunction", <<expr>>)
Min(a, b) == Call("Min", <<a, b>>)
PyPrefix(s, n) == Call("PyPrefix", <<s, n>>)
PySuffix(s, n) == Call("PySuffix", <<s, n>>)
BetweenMatchAt(s, i) == Call("BetweenMatchAt", <<s, i>>)
BetweenMatches(s, i) == Call("BetweenMatches", <<s, i>>)
RemoveMatches(where_clause, matches) == Call("RemoveMatches", <<where_clause, matches>>)
VarFor(var_mappings, col) == Call("VarFor", <<var_mappings, col>>)
FormatFilterValue(v) == Call("FormatFilterValue", <<v>>)
CalcTailAt(s, q) == Call("CalcTailAt", <<s, q>>)
ColumnEnds(s) == Call("ColumnEnds", <<s>>)
OpsAfter(s, e) == Call("OpsAfter", <<s, e>>)
ComparisonMatch(s) == Call("ComparisonMatch", <<s>>)
CreateFilterExpression(condition, var_mappings) == Call("CreateFilterExpression", <<condition, var_mappings>>)
PartFilter(part, var_mappings) == Call("PartFilter", <<part, var_mappings>>)
PartFilters(and_parts, var_mappings) == Call("PartFilters", <<and_parts, var_mappings>>)
ProcessComplexWhere(where_clause, var_mappings) == Call("ProcessComplexWhere", <<where_clause, var_mappings>>)
ProcessGroupBy(group_clause, var_mappings) == Call("ProcessGroupBy", <<group_clause, var_mappings>>)
ProcessHaving(having_clause, var_mappings) == Call("ProcessHaving", <<having_clause, var_mappings>>)
OrderItem(item_in, var_mappings) == Call("OrderItem", <<item_in, var_mappings>>)
ProcessOrderBy(order_clause, var_mappings) == Call("ProcessOrderBy", <<order_clause, var_mappings>>)
LimitMatch(sql) == Call("LimitMatch", <<sql>>)
ProcessSelectItems(items, select_vars, var_mappings, patterns, current_from_table) == Call("ProcessSelectItems", <<items, select_vars, var_mappings, patterns, current_from_table>>)
Raised(kind, path, var_mappings, current_from_table) == Call("Raised", <<kind, path, var_mappings, current_from_table>>)
ConvertWithExpressions(sql_query, old_from_table) == Call("ConvertWithExpressions", <<sql_query, old_from_table>>)
CharAt(s, i) == Call("CharAt", <<s, i>>)
TwoWordEnd(s, i, first, second) == Call("TwoWordEnd", <<s, i, first, second>>)
QuotedEnd(s, i) == Call("QuotedEnd", <<s, i>>)
NumberEnd(s, i) == Call("NumberEnd", <<s, i>>)
TokenEnd(s, i) == Call("TokenEnd", <<s, i>>)
TokensFrom(s, i) == Call("TokensFrom", <<s, i>>)
Tokens(s) == Call("Tokens", <<s>>)
IsWhitespace(token) == Call("IsWhitespace", <<token>>)
Attribute(relation, name, alias, aggregate) == Call("Attribute", <<relation, name, alias, aggregate>>)
TokUpper(tokens, k) == Call("TokUpper", <<tokens, k>>)
SortedPositions(S) == Call("SortedPositions", <<S>>)
OrderThenBy(tokens, k) == Call("OrderThenBy", <<tokens, k>>)
RelationAndName(attr_str, stripped) == Call("RelationAndName", <<attr_str, stripped>>)
AggregateArgument(attr_str, agg_name) == Call("AggregateArgument", <<attr_str, agg_name>>)
AddAttribute(attr_parts) == Call("AddAttribute", <<attr_parts>>)
TokenDepth(tokens, start, k) == Call("TokenDepth", <<tokens, start, k>>)
ParseSelectClause(tokens, start_idx) == Call("ParseSelectClause", <<tokens, start_idx>>)
ParseFromClause(tokens, start_idx) == Call("ParseFromClause", <<tokens, start_idx>>)
ConditionText(tokens, a, b) == Call("ConditionText", <<tokens, a, b>>)
ConditionValue(text) == Call("ConditionValue", <<text>>)
JoinMatch(cond) == Call("JoinMatch", <<cond>>)
RelationalTail(cond, p) == Call("RelationalTail", <<cond, p>>)
ExprMatch(cond) == Call("ExprMatch", <<cond>>)
WordTailMatch(cond, p, words) == Call("WordTailMatch", <<cond, p, words>>)
OperatorTails(cond, p) == Call("OperatorTails", <<cond, p>>)
CompMatch(cond) == Call("CompMatch", <<cond>>)
ParseConditions(condition_str) == Call("ParseConditions", <<condition_str>>)
ParseWhereClause(tokens, start_idx) == Call("ParseWhereClause", <<tokens, start_idx>>)
IsComma(tokens, k) == Call("IsComma", <<tokens, k>>)
ParseGroupByClause(tokens, start_idx) == Call("ParseGroupByClause", <<tokens, start_idx>>)
ParseHavingConditions(condition_str) == Call("ParseHavingConditions", <<condition_str>>)
ParseHavingClause(tokens, start_idx) == Call("ParseHavingClause", <<tokens, start_idx>>)
AddOrderByAttribute(attr_parts, direction) == Call("AddOrderByAttribute", <<attr_parts, direction>>)
OrderByStep(tokens, idx, st) == Call("OrderByStep", <<tokens, idx, st>>)
ParseOrderByClause(tokens, start_idx) == Call("ParseOrderByClause", <<tokens, start_idx>>)
DigitsValue(s) == Call("DigitsValue", <<s>>)
ParseCountClause(tokens, start_idx) == Call("ParseCountClause", <<tokens, start_idx>>)
EmptyQuery(type) == Call("EmptyQuery", <<type>>)
ParseSelectQuery(tokens, idx, query) == Call("ParseSelectQuery", <<tokens, idx, query>>)
ZipDict(columns, values, d) == Call("ZipDict", <<columns, values, d>>)
ParseInsertQuery(query_str, query) == Call("ParseInsertQuery", <<query_str, query>>)
ParseDeleteQuery(query_str, query) == Call("ParseDeleteQuery", <<query_str, query>>)
IsDML(tokens, k) == Call("IsDML", <<tokens, k>>)
Parse(sql_query) == Call("Parse", <<sql_query>>)
Triple(subject, predicate, object) == Call("Triple", <<subject, predicate, object>>)
ToSparqlPattern(t) == Call("ToSparqlPattern", <<t>>)
GetPredicateUri(attribute_name) == Call("GetPredicateUri", <<attribute_name>>)
GetTypeUri(relation_name) == Call("GetTypeUri", <<relation_name>>)
ApplyAggregate(variable, aggregate, alias) == Call("ApplyAggregate", <<variable, aggregate, alias>>)
SelectConvert(attributes) == Call("SelectConvert", <<attributes>>)
WhereExtractSubjectVars(subject_vars, patterns) == Call("WhereExtractSubjectVars", <<subject_vars, patterns>>)
WhereGetSubjectVar(subject_vars, relation) == Call("WhereGetSubjectVar", <<subject_vars, relation>>)
WhereBuildFilterExpression(variable, operator, value) == Call("WhereBuildFilterExpression", <<variable, operator, value>>)
JoinSharedVar(patterns) == Call("JoinSharedVar", <<patterns>>)
ProcessJoinConditions(join_conditions, i, st) == Call("ProcessJoinConditions", <<join_conditions, i, st>>)
ProcessBooleanConditions(where_conditions, i, st) == Call("ProcessBooleanConditions", <<where_conditions, i, st>>)
WhereConvert(join_conditions, where_conditions, existing_patterns, w) == Call("WhereConvert", <<join_conditions, where_conditions, existing_patterns, w>>)
GroupExtractSubjectVars(subject_vars, patterns) == Call("GroupExtractSubjectVars", <<subject_vars, patterns>>)
GroupGetSubjectVar(subject_vars, relation) == Call("GroupGetSubjectVar", <<subject_vars, relation>>)
GroupPatternExists(patterns, subject, predicate) == Call("GroupPatternExists", <<patterns, subject, predicate>>)
FindObjectVar(patterns, subject, predicate) == Call("FindObjectVar", <<patterns, subject, predicate>>)
FindSelectVarForAttribute(attr, select_vars, select_patterns) == Call("FindSelectVarForAttribute", <<attr, select_vars, select_patterns>>)
BuildAggregateExpr(variable, aggregate) == Call("BuildAggregateExpr", <<variable, aggregate>>)
GroupByStep(attrs, i, existing_patterns, select_vars, select_patterns, st) == Call("GroupByStep", <<attrs, i, existing_patterns, select_vars, select_patterns, st>>)
ConvertGroupBy(group_by_attributes, existing_patterns, select_vars, select_patterns, subject_vars) == Call("ConvertGroupBy", <<group_by_attributes, existing_patterns, select_vars, select_patterns, subject_vars>>)
BaseVariable(object_var) == Call("BaseVariable", <<object_var>>)
HavingStep(conds, i, existing_patterns, select_vars, select_patterns, st) == Call("HavingStep", <<conds, i, existing_patterns, select_vars, select_patterns, st>>)
ConvertHaving(having_conditions, existing_patterns, select_vars, select_patterns, subject_vars) == Call("ConvertHaving", <<having_conditions, existing_patterns, select_vars, select_patterns, subject_vars>>)
FormatValue(value) == Call("FormatValue", <<value>>)
DeleteBuildFilterExpression(variable, operator, value) == Call("DeleteBuildFilterExpression", <<variable, operator, value>>)
SubjectUri(table_name, entity_id) == Call("SubjectUri", <<table_name, entity_id>>)
ConvertInsert(table_name, values, entity_id) == Call("ConvertInsert", <<table_name, values, entity_id>>)
ConvertDelete(table_name, where_conditions) == Call("ConvertDelete", <<table_name, where_conditions>>)
PatternLines(patterns) == Call("PatternLines", <<patterns>>)
FilterLines(filters) == Call("FilterLines", <<filters>>)
BuildSelectQuery(q) == Call("BuildSelectQuery", <<q>>)
BuildInsertQuery(q) == Call("BuildInsertQuery", <<q>>)
BuildDeleteQuery(q) == Call("BuildDeleteQuery", <<q>>)
QueryToString(q) == Call("QueryToString", <<q>>)
ExtendNew(where_patterns, patterns) == Call("ExtendNew", <<where_patterns, patterns>>)
FindVariableForAttribute(select_vars) == Call("FindVariableForAttribute", <<select_vars>>)
ConvertSelectQuery(sql_query, inst) == Call("ConvertSelectQuery", <<sql_query, inst>>)
ConvertInsertQuery(sql_query, entity_id) == Call("ConvertInsertQuery", <<sql_query, entity_id>>)
ConvertDeleteQuery(sql_query) == Call("ConvertDeleteQuery", <<sql_query>>)
Outcome(ok, path, text, select_vars, patterns, filters) == Call("Outcome", <<ok, path, text, select_vars, patterns, filters>>)
StandardConvert(sql_query, inst, entity_id) == Call("StandardConvert", <<sql_query, inst, entity_id>>)
ExpressionConvert(sql_query, inst) == Call("ExpressionConvert", <<sql_query, inst>>)
NeedsEnhanced(sql_query) == Call("NeedsEnhanced", <<sql_query>>)
OrderByGroup(s, i) == Call("OrderByGroup", <<s, i>>)
LimitGroup(s, i) == Call("LimitGroup", <<s, i>>)
UnionSepEnd(s, i) == Call("UnionSepEnd", <<s, i>>)
SplitUnionFrom(s, start) == Call("SplitUnionFrom", <<s, start>>)
UnionPart(part) == Call("UnionPart", <<part>>)
WhereContent(sub_sparql) == Call("WhereContent", <<sub_sparql>>)
SelectContent(sub_sparql) == Call("SelectContent", <<sub_sparql>>)
UnionTrailingLines(sql_query, oi, li) == Call("UnionTrailingLines", <<sql_query, oi, li>>)
UnionLines(i, sub_sparql) == Call("UnionLines", <<i, sub_sparql>>)
UnionBranches(parts, i, st, entity_id) == Call("UnionBranches", <<parts, i, st, entity_id>>)
HandleUnionQuery(sql_query, inst, entity_id) == Call("HandleUnionQuery", <<sql_query, inst, entity_id>>)
Convert(sql_query, inst, entity_id) == Call("Convert", <<sql_query, inst, entity_id>>)
GetTableName(rdf_type) == Call("GetTableName", <<rdf_type>>)
GetAttributeName(predicate) == Call("GetAttributeName", <<predicate>>)
GetSubjectTypes(graph, subject) == Call("GetSubjectTypes", <<graph, subject>>)
AddPredicate(type_predicates, subject_types, i, pred_name) == Call("AddPredicate", <<type_predicates, subject_types, i, pred_name>>)
TypePredicatesFrom(graph, i, type_predicates) == Call("TypePredicatesFrom", <<graph, i, type_predicates>>)
ExtractTypePredicates(graph) == Call("ExtractTypePredicates", <<graph>>)
ListsOf(predicates) == Call("ListsOf", <<predicates>>)
AddTable(tables, table_name, attributes) == Call("AddTable", <<tables, table_name, attributes>>)
AddTablesFrom(type_predicates, i, tables) == Call("AddTablesFrom", <<type_predicates, i, tables>>)
ExtractSchema(graph) == Call("ExtractSchema", <<graph>>)

-----------------------------------------------------------------------------
(* Characters and Python's str methods                                     *)

LowerLetters == <<"a","b","c","d","e","f","g","h","i","j","k","l","m",
                  "n","o","p","q","r","s","t","u","v","w","x","y","z">>
UpperLetters == <<"A","B","C","D","E","F","G","H","I","J","K","L","M",
                  "N","O","P","Q","R","S","T","U","V","W","X","Y","Z">>
LowerSet == {LowerLetters[i] : i \in 1..26}
UpperSet == {UpperLetters[i] : i \in 1..26}
LetterSet == LowerSet \cup UpperSet
DigitSet == {"0","1","2","3","4","5","6","7","8","9"}
\* \w of Python's re on ASCII text
WordChars == LetterSet \cup DigitSet \cup {"_"}
\* \s of Python's re, and what str.strip() removes
SpaceChars == {" ", "\n", "\t", "\r"}

UpMap == [c \in LowerSet |-> UpperLetters[CHOOSE i \in 1..26 : LowerLetters[i] = c]]
LowMap == [c \in UpperSet |-> LowerLetters[CHOOSE i \in 1..26 : UpperLetters[i] = c]]
ToUpperCDef(c) == IF c \in LowerSet THEN UpMap[c] ELSE c
ToLowerCDef(c) == IF c \in UpperSet THEN LowMap[c] ELSE c

\* str.upper(), str.lower(), str.title()
UpperDef(s) == [i \in 1..Len(s) |-> ToUpperC(s[i])]
LowerDef(s) == [i \in 1..Len(s) |-> ToLowerC(s[i])]
TitleDef(s) == [i \in 1..Len(s) |->
               IF s[i] \notin LetterSet THEN s[i]
               ELSE IF i = 1 \/ s[i-1] \notin LetterSet THEN ToUpperC(s[i])
               ELSE ToLowerC(s[i])]

\* s[a..b] as Python's s[a-1:b]; empty when b < a
SliceDef(s, a, b) == IF b < a THEN <<>> ELSE SubSeq(s, a, b)
FromDef(s, a) == Slice(s, a, Len(s))

\* the text as one TLA+ string
RECURSIVE StrDef(_)
StrDef(s) ==
    IF Len(s) = 0 THEN ""
    ELSE IF Len(s) = 1 THEN s[1]
    ELSE StrDef(Slice(s, 1, Len(s) \div 2)) \o StrDef(From(s, (Len(s) \div 2) + 1))

\* the least and the greatest element of a set of positions; 0 when it is empty
MinOfDef(S) == IF S = {} THEN 0 ELSE CHOOSE k \in S : \A j \in S : k <= j
MaxOfDef(S) == IF S = {} THEN 0 ELSE CHOOSE k \in S : \A j \in S : k >= j

\* least (greatest) k in a..b with P(k); 0 when there is none
FirstAt(a, b, P(_)) == MinOf({k \in a..b : P(k)})
LastAt(a, b, P(_)) == MaxOf({k \in a..b : P(k)})

\* p occurs in s at position i
StartsAtDef(s, p, i) ==
    /\ i >= 1
    /\ i + Len(p) - 1 <= Len(s)
    /\ \A k \in 1..Len(p) : s[i + k - 1] = p[k]
\* the same, ignoring letter case (re.IGNORECASE on ASCII text)
StartsAtIDef(s, p, i) ==
    /\ i >= 1
    /\ i + Len(p) - 1 <= Len(s)
    /\ \A k \in 1..Len(p) : ToUpperC(s[i + k - 1]) = ToUpperC(p[k])
StartsWithDef(s, p) == StartsAt(s, p, 1)
EndsWithDef(s, p) == StartsAt(s, p, Len(s) - Len(p) + 1)

\* str.find from position i (1-based); 0 when absent
FindFromDef(s, p, i) == FirstAt(i, Len(s) - Len(p) + 1, LAMBDA k : StartsAt(s, p, k))
FindDef(s, p) == FindFrom(s, p, 1)
\* Python's "p in s"
ContainsDef(s, p) == Find(s, p) # 0

\* first position >= i whose character is in (not in) the set; Len(s)+1 if none
SkipInDef(s, set, i) ==
    IF i > Len(s) THEN i
    ELSE IF \A k \in i..Len(s) : s[k] \in set THEN Len(s) + 1
    ELSE FirstAt(i, Len(s), LAMBDA k : s[k] \notin set)
SkipNotInDef(s, set, i) ==
    IF i > Len(s) THEN i
    ELSE IF \A k \in i..Len(s) : s[k] \notin set THEN Len(s) + 1
    ELSE FirstAt(i, Len(s), LAMBDA k : s[k] \in set)
\* last position <= i whose character is not in the set; 0 if none
SkipBackInDef(s, set, i) == LastAt(1, i, LAMBDA k : s[k] \notin set)

\* str.strip(chars), str.lstrip(chars), str.rstrip(chars)
StripSetDef(s, set) == Slice(s, SkipIn(s, set, 1), SkipBackIn(s, set, Len(s)))
LStripSetDef(s, set) == From(s, SkipIn(s, set, 1))
RStripSetDef(s, set) == Slice(s, 1, SkipBackIn(s, set, Len(s)))
\* str.strip()
StripDef(s) == StripSet(s, SpaceChars)

\* str.split(sep) for a non-empty separator
RECURSIVE SplitOnDef(_, _)
SplitOnDef(s, sep) ==
    LET i == Find(s, sep)
    IN  IF i = 0 THEN <<s>>
        ELSE <<Slice(s, 1, i - 1)>> \o SplitOnDef(From(s, i + Len(sep)), sep)

\* str.split(): runs of whitespace separate, no empty parts
RECURSIVE SplitWsDef(_)
SplitWsDef(s) ==
    LET a == SkipIn(s, SpaceChars, 1)
        b == SkipNotIn(s, SpaceChars, a)
    IN  IF a > Len(s) THEN <<>>
        ELSE <<Slice(s, a, b - 1)>> \o SplitWsDef(From(s, b))

\* str.replace(old, new)
RECURSIVE ReplaceDef(_, _, _)
ReplaceDef(s, old, new) ==
    LET i == Find(s, old)
    IN  IF i = 0 THEN s
        ELSE Slice(s, 1, i - 1) \o new \o ReplaceDef(From(s, i + Len(old)), old, new)

\* sep.join(parts)
RECURSIVE JoinDef(_, _)
JoinDef(parts, sep) ==
    IF Len(parts) = 0 THEN <<>>
    ELSE IF Len(parts) = 1 THEN parts[1]
    ELSE JoinDef(Slice(parts, 1, Len(parts) \div 2), sep) \o sep
         \o JoinDef(From(parts, (Len(parts) \div 2) + 1), sep)

\* str.isdigit()
IsDigitsDef(s) == Len(s) > 0 /\ \A i \in 1..Len(s) : s[i] \in DigitSet

\* str(n) for a natural number
RECURSIVE NatTextDef(_)
NatTextDef(n) ==
    LET d == <<"0","1","2","3","4","5","6","7","8","9">>
    IN  IF n < 10 THEN <<d[n + 1]>> ELSE NatTextDef(n \div 10) \o <<d[(n % 10) + 1]>>

-----------------------------------------------------------------------------
(* Literal texts of the source                                             *)

kSELECT == <<"S","E","L","E","C","T">>
kFROM == <<"F","R","O","M">>
kWHERE == <<"W","H","E","R","E">>
kGROUP == <<"G","R","O","U","P">>
kGROUP_BY == <<"G","R","O","U","P"," ","B","Y">>
kHAVING == <<"H","A","V","I","N","G">>
kORDER == <<"O","R","D","E","R">>
kORDER_BY == <<"O","R","D","E","R"," ","B","Y">>
kLIMIT == <<"L","I","M","I","T">>
kOFFSET == <<"O","F","F","S","E","T">>
kUNION == <<"U","N","I","O","N">>
kINTERSECT == <<"I","N","T","E","R","S","E","C","T">>
kEXCEPT == <<"E","X","C","E","P","T">>
kINSERT == <<"I","N","S","E","R","T">>
kDELETE == <<"D","E","L","E","T","E">>
kUPDATE == <<"U","P","D","A","T","E">>
kINTO == <<"I","N","T","O">>
kVALUES == <<"V","A","L","U","E","S">>
kBETWEEN == <<"B","E","T","W","E","E","N">>
kAND == <<"A","N","D">>
kOR == <<"O","R">>
kAS == <<"A","S">>
kIN == <<"I","N">>
kLIKE == <<"L","I","K","E">>
kNOT == <<"N","O","T">>
kBY == <<"B","Y">>
kALL == <<"A","L","L">>
kASC == <<"A","S","C">>
kDESC == <<"D","E","S","C">>
kCOUNT == <<"C","O","U","N","T">>
kSUM == <<"S","U","M">>
kAVG == <<"A","V","G">>
kMIN == <<"M","I","N">>
kMAX == <<"M","A","X">>
kINF == <<"I","N","F">>
kINFINITY == <<"I","N","F","I","N","I","T","Y">>
kNAN == <<"N","A","N">>
kDECIMAL_PLACEHOLDER == <<"D","E","C","I","M","A","L","_","P","L","A","C","E","H","O","L","D","E","R">>
kOntology == <<"<","h","t","t","p",":","/","/","e","x","a","m","p","l","e",".","o","r","g","/","o","n","t","o","l","o","g","y","/">>
kTypes == <<"<","h","t","t","p",":","/","/","e","x","a","m","p","l","e",".","o","r","g","/","t","y","p","e","s","/">>
kRdfType == <<"r","d","f",":","t","y","p","e">>
kEntity == <<"e","n","t","i","t","y">>
kSubject == <<"s","u","b","j","e","c","t">>
kHttp == <<"h","t","t","p",":","/","/">>
kHttps == <<"h","t","t","p","s",":","/","/">>
kBaseUri == <<"h","t","t","p",":","/","/","e","x","a","m","p","l","e",".","o","r","g","/">>
AggNames == <<kCOUNT, kSUM, kAVG, kMIN, kMAX>>
ArithOps == <<"+", "-", "*", "/">>
QuoteChars == {"'", "\""}

-----------------------------------------------------------------------------
(* Python's float(): which texts it accepts                                *)

\* end of the longest digitpart (digits, single underscores between them)
\* that starts at i; i itself when there is none
RECURSIVE DigitPartEndDef(_, _)
DigitPartEndDef(s, i) ==
    IF i > Len(s) \/ s[i] \notin DigitSet THEN i
    ELSE IF i + 1 <= Len(s) /\ s[i+1] \in DigitSet THEN DigitPartEndDef(s, i + 1)
    ELSE IF i + 2 <= Len(s) /\ s[i+1] = "_" /\ s[i+2] \in DigitSet
         THEN DigitPartEndDef(s, i + 2)
    ELSE i + 1

FloatBodyDef(t) ==
    LET a == DigitPartEnd(t, 1)
        b == IF a > 1
             THEN (IF a <= Len(t) /\ t[a] = "." THEN DigitPartEnd(t, a + 1) ELSE a)
             ELSE (IF Len(t) >= 1 /\ t[1] = "." /\ DigitPartEnd(t, 2) > 2
                   THEN DigitPartEnd(t, 2) ELSE 0)
        c0 == IF b >= 1 /\ b <= Len(t) /\ ToUpperC(t[b]) = "E"
              THEN (IF b + 1 <= Len(t) /\ t[b+1] \in {"+", "-"} THEN b + 2 ELSE b + 1)
              ELSE 0
        c == IF c0 = 0 THEN b
             ELSE IF DigitPartEnd(t, c0) > c0 THEN DigitPartEnd(t, c0) ELSE 0
    IN  b >= 1 /\ c = Len(t) + 1

\* float(s) does not raise ValueError
IsFloatDef(s) ==
    LET t == Strip(s)
        u == IF Len(t) >= 1 /\ t[1] \in {"+", "-"} THEN Tail(t) ELSE t
    IN  /\ Len(u) > 0
        /\ \/ Upper(u) \in {kINF, kINFINITY, kNAN}
           \/ FloatBody(u)

-----------------------------------------------------------------------------
(* Python dicts (insertion ordered) as sequences of <<key, value>> pairs    *)

DictHasDef(d, k) == \E i \in 1..Len(d) : d[i][1] = k
DictGetDef(d, k, default) ==
    IF DictHas(d, k) THEN d[CHOOSE i \in 1..Len(d) : d[i][1] = k][2] ELSE default
DictSetDef(d, k, v) ==
    IF DictHas(d, k)
    THEN [i \in 1..Len(d) |-> IF d[i][1] = k THEN <<k, v>> ELSE d[i]]
    ELSE Append(d, <<k, v>>)
\* Python's "x in list"
InSeqDef(x, seq) == \E i \in 1..Len(seq) : seq[i] = x
AppendNewDef(seq, x) == IF InSeq(x, seq) THEN seq ELSE Append(seq, x)

-----------------------------------------------------------------------------
(* Regular-expression steps shared by the converter's string handling      *)

\* first position >= i where kw stands (ignoring case) followed by white
\* space; 0 if none
FindKwWsDef(s, kw, i) ==
    FirstAt(i, Len(s) - Len(kw),
            LAMBDA k : StartsAtI(s, kw, k) /\ s[k + Len(kw)] \in SpaceChars)

\* first position >= i where one of the keywords stands (ignoring case);
\* Len(s)+1 if none
FindAnyIDef(s, kws, i) ==
    LET p == FirstAt(i, Len(s), LAMBDA x : \E k \in 1..Len(kws) : StartsAtI(s, kws[k], x))
    IN  IF p = 0 THEN (IF i > Len(s) THEN i ELSE Len(s) + 1) ELSE p

\* _extract_clause: re.search(start\s+(.*?)(?:end...)) with IGNORECASE and
\* DOTALL; toEnd says that the alternatives of end include $
ExtractClauseDef(sql, start, ends, toEnd) ==
    LET i == FindKwWs(sql, start, 1)
        a == IF i = 0 THEN 0 ELSE SkipIn(sql, SpaceChars, i + Len(start))
        p == IF i = 0 THEN 0 ELSE FindAnyI(sql, ends, a)
    IN  IF i = 0 \/ (p > Len(sql) /\ ~toEnd) THEN <<>>
        ELSE Strip(Slice(sql, a, p - 1))

\* the match of \s+KW\s+ (ignoring case) that begins at i: the position
\* after the match, 0 if there is none
KwSepEndDef(s, kw, i) ==
    LET r == SkipIn(s, SpaceChars, i)
    IN  IF /\ i <= Len(s)
           /\ s[i] \in SpaceChars
           /\ StartsAtI(s, kw, r)
           /\ r + Len(kw) <= Len(s)
           /\ s[r + Len(kw)] \in SpaceChars
        THEN SkipIn(s, SpaceChars, r + Len(kw))
        ELSE 0

\* re.split(r'\s+KW\s+', s, flags=re.IGNORECASE)
RECURSIVE ReSplitKwFromDef(_, _, _)
ReSplitKwFromDef(s, kw, start) ==
    LET i == FirstAt(start, Len(s), LAMBDA k : KwSepEnd(s, kw, k) # 0)
    IN  IF i = 0 THEN <<Slice(s, start, Len(s))>>
        ELSE <<Slice(s, start, i - 1)>> \o ReSplitKwFromDef(s, kw, KwSepEnd(s, kw, i))
ReSplitKwDef(s, kw) == ReSplitKwFrom(s, kw, 1)

\* _split_respecting_parens
\* paren_depth when the scan of text stands at position i
ParenDepthDef(text, i) ==
    Cardinality({k \in 1..(i - 1) : text[k] = "("})
    - Cardinality({k \in 1..(i - 1) : text[k] = ")"})

\* _split_respecting_parens, scanning from position i
RECURSIVE SplitParensFromDef(_, _, _)
SplitParensFromDef(text, delimiter, i) ==
    LET d == FirstAt(i, Len(text),
                     LAMBDA k : text[k] = delimiter /\ ParenDepth(text, k) = 0)
    IN  IF d = 0
        THEN (IF i <= Len(text) THEN <<Strip(From(text, i))>> ELSE <<>>)
        ELSE <<Strip(Slice(text, i, d - 1))>> \o SplitParensFromDef(text, delimiter, d + 1)
SplitRespectingParensDef(text, delimiter) == SplitParensFrom(text, delimiter, 1)

-----------------------------------------------------------------------------
(* ExpressionBuilder                                                       *)

lAsSp == <<" ","A","S"," ">>
lAsQ == <<" ","A","S"," ","?">>
lAsCalc == <<" ","A","S"," ","?","c","a","l","c","_">>
lCountStar == <<"(","C","O","U","N","T","(","*",")"," ","A","S"," ","?","c","o","u","n","t",")">>
lUnknown == <<"?","u","n","k","n","o","w","n">>
lNULL == <<"N","U","L","L">>
lStarClose == <<"(","*",")">>

NoNode == [type |-> "none"]

\* position of the first op outside parentheses with text on both sides;
\* 0 if none
FindOpAtDef(e, op) ==
    FirstAt(1, Len(e), LAMBDA i : /\ e[i] = op
                                  /\ ParenDepth(e, i) = 0
                                  /\ Len(Strip(Slice(e, 1, i - 1))) > 0
                                  /\ Len(Strip(From(e, i + 1))) > 0)

\* re.match(r'^\d+\.\d+$', s) on a stripped text
IsDecimalTextDef(s) ==
    LET d == SkipIn(s, DigitSet, 1)
    IN  /\ d > 1
        /\ d < Len(s)
        /\ s[d] = "."
        /\ SkipIn(s, DigitSet, d + 1) = Len(s) + 1

\* re.match(r'(\w+)\((.*?)\)', s): <<end of name, position of ")">> or <<0, 0>>
FuncMatchDef(s) ==
    LET w == SkipIn(s, WordChars, 1)
        q == IF w > 1 /\ w <= Len(s) /\ s[w] = "(" THEN FindFrom(s, <<")">>, w + 1) ELSE 0
    IN  IF q # 0 /\ ~Contains(Slice(s, w + 1, q - 1), <<"\n">>) THEN <<w, q>> ELSE <<0, 0>>

RECURSIVE ParseExpressionDef(_)
ParseExpressionDef(expr_in) ==
    LET s0 == Strip(expr_in)
        expr_str == IF StartsWith(s0, <<"(">>) /\ EndsWith(s0, <<")">>)
                    THEN Strip(Slice(s0, 2, Len(s0) - 1)) ELSE s0
        found == {k \in 1..4 : FindOpAt(expr_str, ArithOps[k]) # 0}
        k == CHOOSE x \in found : \A y \in found : x <= y
        i == FindOpAt(expr_str, ArithOps[k])
        fm == FuncMatch(expr_str)
        args_str == Slice(expr_str, fm[1] + 1, fm[2] - 1)
        args == SelectSeq(SplitOn(args_str, <<",">>), LAMBDA a : Len(Strip(a)) > 0)
        parts == SplitOn(expr_str, <<".">>)
    IN  IF found # {}
        THEN [type |-> "operator", value |-> ArithOps[k],
              left |-> ParseExpressionDef(Strip(Slice(expr_str, 1, i - 1))),
              right |-> ParseExpressionDef(Strip(From(expr_str, i + 1))),
              arguments |-> <<>>]
        ELSE IF fm[1] # 0
        THEN [type |-> "function", value |-> Upper(Slice(expr_str, 1, fm[1] - 1)),
              left |-> NoNode, right |-> NoNode,
              arguments |-> [j \in 1..Len(args) |-> ParseExpressionDef(Strip(args[j]))]]
        ELSE IF Contains(expr_str, <<".">>) /\ ~IsDecimalText(expr_str) /\ Len(parts) = 2
        THEN [type |-> "operand", value |-> [table |-> <<parts[1]>>, column |-> parts[2]],
              left |-> NoNode, right |-> NoNode, arguments |-> <<>>]
        ELSE IF IsFloat(expr_str) \/ StartsWith(expr_str, <<"'">>) \/ StartsWith(expr_str, <<"\"">>)
        THEN [type |-> "literal", value |-> expr_str,
              left |-> NoNode, right |-> NoNode, arguments |-> <<>>]
        ELSE [type |-> "operand", value |-> [table |-> <<>>, column |-> expr_str],
              left |-> NoNode, right |-> NoNode, arguments |-> <<>>]

\* the value of the first var_mappings item whose key ends with .col_name
SuffixVarDef(var_mappings, col_name, default) ==
    LET hits == {j \in 1..Len(var_mappings) :
                    EndsWith(var_mappings[j][1], <<".">> \o col_name)}
    IN  IF hits = {} THEN default
        ELSE var_mappings[CHOOSE x \in hits : \A y \in hits : x <= y][2]

RECURSIVE ToSparqlExpressionDef(_, _)
ToSparqlExpressionDef(node, var_mappings) ==
    IF node.type = "operator"
    THEN <<"(">> \o ToSparqlExpressionDef(node.left, var_mappings) \o <<" ", node.value, " ">>
         \o ToSparqlExpressionDef(node.right, var_mappings) \o <<")">>
    ELSE IF node.type = "operand"
    THEN (IF Len(node.value.table) = 1
          THEN DictGet(var_mappings, node.value.table[1] \o <<".">> \o node.value.column,
                       <<"?">> \o Lower(node.value.column))
          ELSE DictGet(var_mappings, node.value.column,
                       SuffixVar(var_mappings, node.value.column,
                                 <<"?">> \o Lower(node.value.column))))
    ELSE IF node.type = "literal" THEN node.value
    ELSE IF node.type = "function" /\ InSeq(node.value, AggNames)
    THEN (IF Len(node.arguments) > 0
          THEN node.value \o <<"(">> \o ToSparqlExpressionDef(node.arguments[1], var_mappings) \o <<")">>
          ELSE node.value \o lStarClose)
    ELSE lUnknown

-----------------------------------------------------------------------------
(* SQL2SPARQLConverter: the select list of the expression path             *)

\* re.sub(r'\b\d+\.\d+\b', 'DECIMAL_PLACEHOLDER', s), scanning from i
RECURSIVE ReplaceDecimalsDef(_, _)
ReplaceDecimalsDef(s, i) ==
    LET a == SkipNotIn(s, WordChars, i)
        b == SkipIn(s, WordChars, a)
        c == SkipIn(s, WordChars, b + 1)
    IN  IF a > Len(s) THEN From(s, i)
        ELSE IF /\ IsDigits(Slice(s, a, b - 1))
                /\ b <= Len(s)
                /\ s[b] = "."
                /\ c > b + 1
                /\ IsDigits(Slice(s, b + 1, c - 1))
             THEN Slice(s, i, a - 1) \o kDECIMAL_PLACEHOLDER \o ReplaceDecimalsDef(s, c)
        ELSE Slice(s, i, b - 1) \o ReplaceDecimalsDef(s, b)

\* re.findall(r'\b(\w+\.\w+)\b', s), scanning from i
RECURSIVE DottedWordsDef(_, _)
DottedWordsDef(s, i) ==
    LET a == SkipNotIn(s, WordChars, i)
        b == SkipIn(s, WordChars, a)
        c == SkipIn(s, WordChars, b + 1)
    IN  IF a > Len(s) THEN <<>>
        ELSE IF b <= Len(s) /\ s[b] = "." /\ c > b + 1
             THEN <<Slice(s, a, c - 1)>> \o DottedWordsDef(s, c)
        ELSE DottedWordsDef(s, b)

\* re.findall(r'\b(\w+)\b', s), scanning from i
RECURSIVE WordsDef(_, _)
WordsDef(s, i) ==
    LET a == SkipNotIn(s, WordChars, i)
        b == SkipIn(s, WordChars, a)
    IN  IF a > Len(s) THEN <<>> ELSE <<Slice(s, a, b - 1)>> \o WordsDef(s, b)

NotColumnWords == {kSELECT, kFROM, kWHERE, kAS, kAND, kOR, kDECIMAL_PLACEHOLDER}

RECURSIVE AddSimpleColumnsDef(_, _)
AddSimpleColumnsDef(columns, matches) ==
    IF Len(matches) = 0 THEN columns
    ELSE AddSimpleColumnsDef(
             IF /\ Upper(Head(matches)) \notin NotColumnWords
                /\ ~IsDigits(Head(matches))
                /\ ~InSeq(Head(matches), columns)
             THEN Append(columns, Head(matches)) ELSE columns,
             Tail(matches))

\* _extract_columns_from_expr
ExtractColumnsFromExprDef(expr) ==
    LET temp_expr == ReplaceDecimals(expr, 1)
        dotted == SelectSeq(DottedWords(temp_expr, 1),
                            LAMBDA m : ~Contains(m, kDECIMAL_PLACEHOLDER))
    IN  AddSimpleColumns(dotted, Words(temp_expr, 1))

\* _create_triple_pattern
CreateTriplePatternDef(table, column, var) ==
    <<"?">> \o Lower(table) \o <<" ">> \o kOntology \o column \o <<">", " ">> \o var

\* self._current_from_table if hasattr(self, '_current_from_table') else 'entity'
FromTableOfDef(current_from_table) ==
    IF Len(current_from_table) = 0 THEN kEntity ELSE current_from_table[1]

\* f"?{col.replace('.', '_').lower()}"
ColumnVarDef(col) == <<"?">> \o Lower(Replace(col, <<".">>, <<"_">>))

\* the triple pattern the expression path creates for a column it has not
\* seen; table, column = col.split('.') fails on more than one dot
ColumnPatternDef(col, var, current_from_table) ==
    IF Contains(col, <<".">>)
    THEN CreateTriplePattern(SplitOn(col, <<".">>)[1], SplitOn(col, <<".">>)[2], var)
    ELSE CreateTriplePattern(FromTableOf(current_from_table), col, var)
UnpackFailsDef(col) == Contains(col, <<".">>) /\ Len(SplitOn(col, <<".">>)) # 2

\* the loop over the columns of a calculated expression
RECURSIVE MapCalcColumnsDef(_, _, _, _)
MapCalcColumnsDef(columns, var_mappings, patterns, current_from_table) ==
    IF Len(columns) = 0 THEN [var_mappings |-> var_mappings, patterns |-> patterns]
    ELSE LET col == Head(columns)
         IN  IF ~DictHas(var_mappings, col) /\ ~IsDigits(col)
             THEN MapCalcColumnsDef(Tail(columns),
                      DictSet(var_mappings, col, ColumnVar(col)),
                      AppendNew(patterns, ColumnPattern(col, ColumnVar(col), current_from_table)),
                      current_from_table)
             ELSE MapCalcColumnsDef(Tail(columns), var_mappings, patterns, current_from_table)

\* _process_calculated_column
ProcessCalculatedColumnDef(expr_in, var_mappings, patterns, current_from_table) ==
    LET hasAs == Contains(Upper(expr_in), lAsSp)
        parts == ReSplitKw(expr_in, kAS)
        expr == IF hasAs THEN Strip(parts[1]) ELSE expr_in
        alias == IF hasAs THEN Strip(parts[2]) ELSE <<>>
        m == MapCalcColumns(ExtractColumnsFromExpr(expr), var_mappings, patterns,
                            current_from_table)
        sparql_expr == ToSparqlExpression(ParseExpression(expr), m.var_mappings)
    IN  [var |-> IF Len(alias) > 0
                 THEN <<"(">> \o sparql_expr \o lAsQ \o alias \o <<")">>
                 ELSE <<"(">> \o sparql_expr \o lAsCalc \o NatText(Len(m.var_mappings)) \o <<")">>,
         var_mappings |-> m.var_mappings,
         patterns |-> m.patterns,
         err |-> FALSE]

\* last position of c in s[a..b]; 0 if none
FindLastInDef(s, c, a, b) == LastAt(a, b, LAMBDA k : s[k] = c)

\* end of the line that position i is on: the position of the next "\n",
\* or Len(s)+1
LineEndDef(s, i) == SkipNotIn(s, {"\n"}, i)

\* re.search(r'\s+as\s+(\w+)', s, re.IGNORECASE) from i: group 1, or <<>>
AliasAfterAsDef(s, i) ==
    LET hit(k) == KwSepEnd(s, kAS, k) # 0 /\ KwSepEnd(s, kAS, k) <= Len(s)
                  /\ s[KwSepEnd(s, kAS, k)] \in WordChars
        p == FirstAt(i, Len(s), hit)
        e == KwSepEnd(s, kAS, p)
    IN  IF p = 0 THEN <<>> ELSE Slice(s, e, SkipIn(s, WordChars, e) - 1)

\* _process_aggregate_function
ProcessAggregateFunctionDef(expr, var_mappings, patterns, current_from_table) ==
    LET w == SkipIn(expr, WordChars, 1)
        q == IF w > 1 /\ w <= Len(expr) /\ expr[w] = "("
             THEN FindLastIn(expr, ")", w + 1, LineEnd(expr, w + 1) - 1) ELSE 0
        func == Upper(Slice(expr, 1, w - 1))
        col == Strip(Slice(expr, w + 1, q - 1))
        known == DictHas(var_mappings, col)
        var == IF known THEN DictGet(var_mappings, col, <<>>) ELSE ColumnVar(col)
        alias == AliasAfterAs(expr, 1)
    IN  IF q = 0
        THEN [var |-> expr, var_mappings |-> var_mappings, patterns |-> patterns, err |-> FALSE]
        ELSE IF col = <<"*">>
        THEN [var |-> lCountStar, var_mappings |-> var_mappings, patterns |-> patterns,
              err |-> FALSE]
        ELSE IF ~known /\ UnpackFails(col)
        THEN [var |-> <<>>, var_mappings |-> var_mappings, patterns |-> patterns, err |-> TRUE]
        ELSE [var |-> IF Len(alias) > 0
                      THEN <<"(">> \o func \o <<"(">> \o var \o <<")">> \o lAsQ \o alias \o <<")">>
                      ELSE <<"(">> \o func \o <<"(">> \o var \o <<")">> \o lAsQ \o Lower(func)
                           \o <<"_">> \o Replace(col, <<".">>, <<"_">>) \o <<")">>,
              var_mappings |-> IF known THEN var_mappings ELSE DictSet(var_mappings, col, var),
              patterns |-> IF ~known /\ Contains(col, <<".">>)
                           THEN AppendNew(patterns, ColumnPattern(col, var, current_from_table))
                           ELSE patterns,
              err |-> FALSE]

\* _process_regular_column
ProcessRegularColumnDef(col_in, var_mappings, patterns, current_from_table) ==
    LET col == Strip(col_in)
        known == DictHas(var_mappings, col)
    IN  IF known
        THEN [var |-> DictGet(var_mappings, col, <<>>), var_mappings |-> var_mappings,
              patterns |-> patterns, err |-> FALSE]
        ELSE IF UnpackFails(col)
        THEN [var |-> <<>>, var_mappings |-> var_mappings, patterns |-> patterns, err |-> TRUE]
        ELSE [var |-> ColumnVar(col),
              var_mappings |-> DictSet(var_mappings, col, ColumnVar(col)),
              patterns |-> AppendNew(patterns, ColumnPattern(col, ColumnVar(col), current_from_table)),
              err |-> FALSE]

\* _is_calculated_expression
IsCalculatedExpressionDef(expr) ==
    LET expr_check == IF Contains(Upper(expr), lAsSp)
                      THEN SplitOn(Upper(expr), lAsSp)[1] ELSE expr
    IN  /\ ~\E k \in 1..Len(AggNames) : Contains(Upper(expr_check), AggNames[k] \o <<"(">>)
        /\ \E k \in 1..Len(ArithOps) : Contains(expr_check, <<ArithOps[k]>>)

\* _is_aggregate_function
IsAggregateFunctionDef(expr) ==
    \E k \in 1..Len(AggNames) : Contains(Upper(expr), AggNames[k] \o <<"(">>)

-----------------------------------------------------------------------------
(* SQL2SPARQLConverter: the WHERE clause of the expression path            *)

lFilterOpen == <<"F","I","L","T","E","R","(">>
lGe == <<" ",">","="," ">>
lAndAnd == <<" ","&","&"," ">>
lLe == <<" ","<","="," ">>
lOrOr == <<" ","|","|"," ">>
lRegexOpen == <<"r","e","g","e","x","(">>
lRegexMid == <<","," ","\"">>
lRegexEnd == <<"\"",","," ","\"","i","\"",")">>
lInOpen == <<" ","I","N"," ","(">>
lCommaSp == <<","," ">>
lDotStar == <<".","*">>
lSelectSp == <<"S","E","L","E","C","T"," ">>
lWhereOpen == <<"W","H","E","R","E"," ","{">>
lGroupBySp == <<"G","R","O","U","P"," ","B","Y"," ">>
lHavingSp == <<"H","A","V","I","N","G"," ">>
lOrderBySp == <<"O","R","D","E","R"," ","B","Y"," ">>
lLimitSp == <<"L","I","M","I","T"," ">>
lCountOpen == <<"(","C","O","U","N","T","(">>
lDescOpen == <<"D","E","S","C","(">>
lAscOpen == <<"A","S","C","(">>
lSpDESC == <<" ","D","E","S","C">>
lSpdesc == <<" ","d","e","s","c">>
lSpASC == <<" ","A","S","C">>
lSpasc == <<" ","a","s","c">>
lInParen == <<"I","N"," ","(">>
lSpOrSp == <<" ","O","R"," ">>
CompareOps == <<<<"=">>, <<"!", "=">>, <<"<", ">">>, <<"<">>, <<">">>, <<"<", "=">>,
                <<">", "=">>, kLIKE, kIN, kBETWEEN>>
RelOpChars == {">", "<", "="}

MinDef(a, b) == IF a <= b THEN a ELSE b
\* Python's s[:n] and s[n:] for n >= 0, with n counted in characters
PyPrefixDef(s, n) == Slice(s, 1, Min(n, Len(s)))
PySuffixDef(s, n) == From(s, n + 1)

\* the match of (\w+(?:\.\w+)?)\s+BETWEEN\s+(\S+)\s+AND\s+(\S+), ignoring
\* case, that begins at position i; ok is FALSE when there is none
BetweenMatchAtDef(s, i) ==
    LET r1 == SkipIn(s, WordChars, i)
        r2 == IF r1 < Len(s) /\ s[r1] = "." /\ s[r1 + 1] \in WordChars
              THEN SkipIn(s, WordChars, r1 + 1) ELSE r1
        w1 == SkipIn(s, SpaceChars, r2)
        b1 == w1 + Len(kBETWEEN)
        w2 == SkipIn(s, SpaceChars, b1)
        v1 == SkipNotIn(s, SpaceChars, w2)
        w3 == SkipIn(s, SpaceChars, v1)
        a1 == w3 + Len(kAND)
        w4 == SkipIn(s, SpaceChars, a1)
        v2 == SkipNotIn(s, SpaceChars, w4)
    IN  IF /\ r1 > i
           /\ w1 > r2
           /\ StartsAtI(s, kBETWEEN, w1)
           /\ w2 > b1
           /\ v1 > w2
           /\ w3 > v1
           /\ StartsAtI(s, kAND, w3)
           /\ w4 > a1
           /\ v2 > w4
        THEN [ok |-> TRUE, start |-> i, end |-> v2, col |-> Slice(s, i, r2 - 1),
              lower |-> Slice(s, w2, v1 - 1), upper |-> Slice(s, w4, v2 - 1)]
        ELSE [ok |-> FALSE]

\* re.finditer of the BETWEEN pattern over s, from position i
RECURSIVE BetweenMatchesDef(_, _)
BetweenMatchesDef(s, i) ==
    LET p == FirstAt(i, Len(s), LAMBDA k : BetweenMatchAt(s, k).ok)
    IN  IF p = 0 THEN <<>>
        ELSE <<BetweenMatchAt(s, p)>> \o BetweenMatchesDef(s, BetweenMatchAt(s, p).end)

\* where_clause[:match.start()] + where_clause[match.end():] for each match
\* in turn; the offsets are those of the text the matches were found in
RECURSIVE RemoveMatchesDef(_, _)
RemoveMatchesDef(where_clause, matches) ==
    IF Len(matches) = 0 THEN where_clause
    ELSE RemoveMatchesDef(PyPrefix(where_clause, Head(matches).start - 1)
                       \o PySuffix(where_clause, Head(matches).end - 1),
                       Tail(matches))

\* self.var_mappings.get(col, f"?{col.replace('.', '_').lower()}")
VarForDef(var_mappings, col) == DictGet(var_mappings, col, ColumnVar(col))

\* the text of a value in a filter: a number bare, anything else quoted
FormatFilterValueDef(v) == IF IsFloat(v) THEN v ELSE <<"\"">> \o v \o <<"\"">>

\* the part of re.match(r'\((.*?)\)\s*([><=]+)\s*(\d+)', s) after the ")"
\* at position q
CalcTailAtDef(s, q) ==
    LET o1 == SkipIn(s, SpaceChars, q + 1)
        o2 == SkipIn(s, RelOpChars, o1)
        d1 == SkipIn(s, SpaceChars, o2)
        d2 == SkipIn(s, DigitSet, d1)
    IN  [ok |-> o2 > o1 /\ d2 > d1, operator |-> Slice(s, o1, o2 - 1),
         value |-> Slice(s, d1, d2 - 1)]

\* the candidates for the end of group 1 of the comparison pattern, in the
\* order in which the matcher tries them
ColumnEndsDef(s) ==
    LET r1 == SkipIn(s, WordChars, 1)
        r2 == IF r1 < Len(s) /\ s[r1] = "." /\ s[r1 + 1] \in WordChars
              THEN SkipIn(s, WordChars, r1 + 1) ELSE r1
        dotted == IF r2 > r1 THEN [j \in 1..(r2 - r1 - 1) |-> r2 - j] ELSE <<>>
    IN  dotted \o [j \in 1..(r1 - 1) |-> r1 - j]

\* the operator alternatives that match after a column ending at e
OpsAfterDef(s, e) ==
    LET p == SkipIn(s, SpaceChars, e + 1)
    IN  SelectSeq(CompareOps,
                  LAMBDA op : /\ StartsAtI(s, op, p)
                              /\ p + Len(op) <= Len(s)
                              /\ s[p + Len(op)] \in SpaceChars
                              /\ SkipIn(s, SpaceChars, p + Len(op)) <= Len(s))

\* re.match(r'(\w+(?:\.\w+)?)\s*(=|!=|<>|<|>|<=|>=|LIKE|IN|BETWEEN)\s+(.+)',
\* s, re.IGNORECASE)
ComparisonMatchDef(s) ==
    LET ends == SelectSeq(ColumnEnds(s), LAMBDA e : Len(OpsAfter(s, e)) > 0)
        e == ends[1]
        op == OpsAfter(s, e)[1]
        p == SkipIn(s, SpaceChars, e + 1)
        v == SkipIn(s, SpaceChars, p + Len(op))
    IN  IF Len(ends) = 0 THEN [ok |-> FALSE]
        ELSE [ok |-> TRUE, column |-> Slice(s, 1, e), operator |-> Upper(op),
              value |-> Strip(Slice(s, v, LineEnd(s, v) - 1))]

\* _create_filter_expression
CreateFilterExpressionDef(condition, var_mappings) ==
    LET hasArith == \E k \in 1..Len(ArithOps) : Contains(condition, <<ArithOps[k]>>)
        q == IF hasArith /\ StartsWith(condition, <<"(">>)
             THEN FirstAt(2, LineEnd(condition, 2) - 1,
                          LAMBDA k : condition[k] = ")" /\ CalcTailAt(condition, k).ok)
             ELSE 0
        calc == CalcTailAt(condition, q)
        m == ComparisonMatch(condition)
        var == VarFor(var_mappings, m.column)
        in_values == SplitOn(StripSet(m.value, {"(", ")"}), <<",">>)
        value_list == [j \in 1..Len(in_values) |->
                         FormatFilterValue(StripSet(Strip(in_values[j]), QuoteChars))]
        bw == SkipNotIn(m.value, SpaceChars, 1)
        ba == SkipIn(m.value, SpaceChars, bw)
        bu == SkipIn(m.value, SpaceChars, ba + Len(kAND))
        be == SkipNotIn(m.value, SpaceChars, bu)
        sparql_op == IF m.operator = <<"<", ">">> THEN <<"!", "=">> ELSE Lower(m.operator)
    IN  IF q # 0
        THEN ToSparqlExpression(ParseExpression(Strip(Slice(condition, 2, q - 1))), var_mappings)
             \o <<" ">> \o calc.operator \o <<" ">> \o calc.value
        ELSE IF ~m.ok THEN <<>>
        ELSE IF m.operator = kLIKE
        THEN lRegexOpen \o var \o lRegexMid
             \o Replace(Replace(StripSet(m.value, QuoteChars), <<"%">>, lDotStar),
                        <<"_">>, <<".">>)
             \o lRegexEnd
        ELSE IF m.operator = kIN
        THEN var \o lInOpen \o Join(value_list, lCommaSp) \o <<")">>
        ELSE IF m.operator = kBETWEEN
        THEN (IF /\ bw > 1
                 /\ ba > bw
                 /\ StartsAtI(m.value, kAND, ba)
                 /\ bu > ba + Len(kAND)
                 /\ be > bu
              THEN <<"(">> \o var \o lGe \o Slice(m.value, 1, bw - 1) \o lAndAnd
                   \o var \o lLe \o Slice(m.value, bu, be - 1) \o <<")">>
              ELSE <<>>)
        ELSE var \o <<" ">> \o sparql_op \o <<" ">>
             \o FormatFilterValue(StripSet(m.value, QuoteChars))

\* the filter of one AND part of the WHERE clause; <<>> when it yields none
PartFilterDef(part, var_mappings) ==
    LET or_parts == ReSplitKw(part, kOR)
        exprs == [j \in 1..Len(or_parts) |->
                    CreateFilterExpression(Strip(or_parts[j]), var_mappings)]
        or_filters == SelectSeq(exprs, LAMBDA x : Len(x) > 0)
    IN  IF Len(or_filters) = 0 THEN <<>>
        ELSE <<lFilterOpen \o Join(or_filters, lOrOr) \o <<")">>>>

RECURSIVE PartFiltersDef(_, _)
PartFiltersDef(and_parts, var_mappings) ==
    IF Len(and_parts) = 0 THEN <<>>
    ELSE (IF Len(Strip(Head(and_parts))) = 0 THEN <<>>
          ELSE PartFilter(Strip(Head(and_parts)), var_mappings))
         \o PartFiltersDef(Tail(and_parts), var_mappings)

\* _process_complex_where
ProcessComplexWhereDef(where_clause, var_mappings) ==
    LET matches == IF Contains(Upper(where_clause), kBETWEEN)
                   THEN BetweenMatches(where_clause, 1) ELSE <<>>
        between == [j \in 1..Len(matches) |->
                      lFilterOpen \o VarFor(var_mappings, matches[j].col) \o lGe
                      \o matches[j].lower \o lAndAnd
                      \o VarFor(var_mappings, matches[j].col) \o lLe
                      \o matches[j].upper \o <<")">>]
        rest == RemoveMatches(where_clause, matches)
    IN  between \o (IF Len(Strip(rest)) = 0 THEN <<>>
                    ELSE PartFilters(ReSplitKw(rest, kAND), var_mappings))

\* _process_group_by
ProcessGroupByDef(group_clause, var_mappings) ==
    LET cols == SplitOn(group_clause, <<",">>)
        known == SelectSeq(cols, LAMBDA c : DictHas(var_mappings, Strip(c)))
    IN  [j \in 1..Len(known) |-> DictGet(var_mappings, Strip(known[j]), <<>>)]

\* _process_having
ProcessHavingDef(having_clause, var_mappings) ==
    LET q == IF StartsAtI(having_clause, kCOUNT \o <<"(">>, 1)
             THEN LastAt(7, LineEnd(having_clause, 7) - 1,
                         LAMBDA k : having_clause[k] = ")" /\ CalcTailAt(having_clause, k).ok)
             ELSE 0
        col == Strip(Slice(having_clause, 7, q - 1))
        t == CalcTailAt(having_clause, q)
    IN  IF q = 0 THEN <<>>
        ELSE lCountOpen \o DictGet(var_mappings, col, <<"?">> \o Lower(col)) \o <<")", " ">>
             \o t.operator \o <<" ">> \o t.value \o <<")">>

\* one item of _process_order_by
OrderItemDef(item_in, var_mappings) ==
    LET item == Strip(item_in)
        dcol == Strip(Replace(Replace(item, lSpDESC, <<>>), lSpdesc, <<>>))
        acol == Strip(Replace(Replace(item, lSpASC, <<>>), lSpasc, <<>>))
    IN  IF Contains(Upper(item), lSpDESC)
        THEN lDescOpen \o DictGet(var_mappings, dcol, <<"?">> \o Lower(dcol)) \o <<")">>
        ELSE IF Contains(Upper(item), lSpASC)
        THEN lAscOpen \o DictGet(var_mappings, acol, <<"?">> \o Lower(acol)) \o <<")">>
        ELSE DictGet(var_mappings, item, <<"?">> \o Lower(item))

\* _process_order_by
ProcessOrderByDef(order_clause, var_mappings) ==
    LET items == SplitOn(order_clause, <<",">>)
    IN  Join([j \in 1..Len(items) |-> OrderItem(items[j], var_mappings)], <<" ">>)

\* re.search(r'LIMIT\s+(\d+)', sql, re.IGNORECASE): group 1, <<>> if no match
LimitMatchDef(sql) ==
    LET hit(k) == /\ StartsAtI(sql, kLIMIT, k)
                  /\ SkipIn(sql, SpaceChars, k + Len(kLIMIT)) > k + Len(kLIMIT)
                  /\ SkipIn(sql, DigitSet, SkipIn(sql, SpaceChars, k + Len(kLIMIT)))
                       > SkipIn(sql, SpaceChars, k + Len(kLIMIT))
        p == FirstAt(1, Len(sql), hit)
        d == SkipIn(sql, SpaceChars, p + Len(kLIMIT))
    IN  IF p = 0 THEN <<>> ELSE Slice(sql, d, SkipIn(sql, DigitSet, d) - 1)

-----------------------------------------------------------------------------
(* SQL2SPARQLConverter._convert_with_expressions                           *)

ClauseEnds == <<kGROUP, kORDER, kLIMIT>>

\* the loop over the items of the select list
RECURSIVE ProcessSelectItemsDef(_, _, _, _, _)
ProcessSelectItemsDef(items, select_vars, var_mappings, patterns, current_from_table) ==
    IF Len(items) = 0
    THEN [select_vars |-> select_vars, var_mappings |-> var_mappings,
          patterns |-> patterns, err |-> FALSE]
    ELSE LET item == Strip(Head(items))
             r == IF IsCalculatedExpression(item)
                  THEN ProcessCalculatedColumn(item, var_mappings, patterns, current_from_table)
                  ELSE IF IsAggregateFunction(item)
                  THEN ProcessAggregateFunction(item, var_mappings, patterns, current_from_table)
                  ELSE ProcessRegularColumn(item, var_mappings, patterns, current_from_table)
         IN  IF r.err
             THEN [select_vars |-> select_vars, var_mappings |-> r.var_mappings,
                   patterns |-> r.patterns, err |-> TRUE]
             ELSE ProcessSelectItemsDef(Tail(items), Append(select_vars, r.var),
                                     r.var_mappings, r.patterns, current_from_table)

\* the result of a conversion that raised an exception
RaisedDef(kind, path, var_mappings, current_from_table) ==
    [ok |-> FALSE, path |-> path, text |-> kind, select_vars |-> <<>>, patterns |-> <<>>,
     filters |-> <<>>, var_mappings |-> var_mappings,
     current_from_table |-> current_from_table]

ConvertWithExpressionsDef(sql_query, old_from_table) ==
    LET select_clause == ExtractClause(sql_query, kSELECT, <<kFROM>>, FALSE)
        from_clause == ExtractClause(sql_query, kFROM, <<kWHERE>> \o ClauseEnds, TRUE)
        where_clause == ExtractClause(sql_query, kWHERE, ClauseEnds, TRUE)
        group_clause == ExtractClause(sql_query, kGROUP_BY, <<kHAVING, kORDER, kLIMIT>>, TRUE)
        having_clause == ExtractClause(sql_query, kHAVING, <<kORDER, kLIMIT>>, TRUE)
        order_clause == ExtractClause(sql_query, kORDER_BY, <<kLIMIT>>, TRUE)
        first_from == SplitWs(Strip(SplitOn(from_clause, <<",">>)[1]))
        current_from_table == IF Len(from_clause) > 0 THEN <<first_from[1]>>
                              ELSE old_from_table
        sel == ProcessSelectItems(SplitRespectingParens(select_clause, ","), <<>>, <<>>,
                                  <<>>, current_from_table)
        filters == IF Len(where_clause) > 0
                   THEN ProcessComplexWhere(where_clause, sel.var_mappings) ELSE <<>>
        group_vars == IF Len(group_clause) > 0
                      THEN ProcessGroupBy(group_clause, sel.var_mappings) ELSE <<>>
        having_expr == IF Len(having_clause) > 0
                       THEN ProcessHaving(having_clause, sel.var_mappings) ELSE <<>>
        order_expr == IF Len(order_clause) > 0
                      THEN ProcessOrderBy(order_clause, sel.var_mappings) ELSE <<>>
        limit == LimitMatch(sql_query)
        sparql_parts ==
            <<lSelectSp \o Join(sel.select_vars, <<" ">>), lWhereOpen>>
            \o [j \in 1..Len(sel.patterns) |-> <<" ", " ">> \o sel.patterns[j] \o <<" ", ".">>]
            \o [j \in 1..Len(filters) |-> <<" ", " ">> \o filters[j]]
            \o <<<<"}">>>>
            \o (IF Len(group_vars) > 0 THEN <<lGroupBySp \o Join(group_vars, <<" ">>)>> ELSE <<>>)
            \o (IF Len(having_expr) > 0 THEN <<lHavingSp \o having_expr>> ELSE <<>>)
            \o (IF Len(order_expr) > 0 THEN <<lOrderBySp \o order_expr>> ELSE <<>>)
            \o (IF Len(limit) > 0 THEN <<lLimitSp \o limit>> ELSE <<>>)
    IN  IF Len(from_clause) > 0 /\ Len(first_from) = 0
        THEN Raised("IndexError", "expressions", <<>>, old_from_table)
        ELSE IF sel.err
        THEN Raised("ValueError", "expressions", sel.var_mappings, current_from_table)
        ELSE [ok |-> TRUE, path |-> "expressions", text |-> Join(sparql_parts, <<"\n">>),
              select_vars |-> sel.select_vars, patterns |-> sel.patterns,
              filters |-> filters, var_mappings |-> sel.var_mappings,
              current_from_table |-> current_from_table]

-----------------------------------------------------------------------------
(* sqlparse: the leaf tokens of the first statement of a text.  The rules  *)
(* are those of the lexer that apply to texts without comments, backslash  *)
(* escapes and placeholders.                                                *)

kILIKE == <<"I","L","I","K","E">>
kRLIKE == <<"R","L","I","K","E">>
kNULL == <<"N","U","L","L">>
WordTail == WordChars \cup {"$", "#"}
NameStartChars == LetterSet \cup {"_"}
PunctuationChars == {";", ":", "(", ")", "[", "]", ",", "."}
ComparisonChars == {"<", ">", "=", "~", "!"}
OperatorChars == {"+", "/", "@", "#", "%", "^", "&", "|", "-"}

CharAtDef(s, i) == IF i >= 1 /\ i <= Len(s) THEN s[i] ELSE ""

\* end of the two-word keyword first\s+second\b standing at i; 0 if none
TwoWordEndDef(s, i, first, second) ==
    LET w == SkipIn(s, SpaceChars, i + Len(first))
    IN  IF /\ StartsAtI(s, first, i)
           /\ w > i + Len(first)
           /\ StartsAtI(s, second, w)
           /\ CharAt(s, w + Len(second)) \notin WordChars
        THEN w + Len(second) ELSE 0

TwoWordKeywords == <<<<kGROUP, kBY>>, <<kORDER, kBY>>, <<kUNION, kALL>>, <<kNOT, kNULL>>,
                     <<kNOT, kLIKE>>, <<kNOT, kILIKE>>, <<kNOT, kRLIKE>>>>

\* end of the quoted text that opens at i, a doubled quote standing for a
\* quote inside it; 0 if it is not closed
QuotedEndDef(s, i) ==
    LET q == s[i]
        runStart(k) == LET l == LastAt(i + 1, k, LAMBDA j : s[j] # q)
                       IN  IF l = 0 THEN i + 1 ELSE l + 1
        closes(k) == /\ s[k] = q
                     /\ CharAt(s, k + 1) # q
                     /\ (k - runStart(k)) % 2 = 0
        k1 == FirstAt(i + 1, Len(s), closes)
    IN  IF k1 # 0 THEN k1 + 1 ELSE LastAt(i + 1, Len(s), LAMBDA j : s[j] = q)

\* end of the number that stands at i; 0 if none
NumberEndDef(s, i) ==
    LET n0 == IF s[i] = "-" THEN i + 1 ELSE i
        d1 == SkipIn(s, DigitSet, n0)
        f1 == IF d1 > n0 /\ CharAt(s, d1) = "." /\ SkipIn(s, DigitSet, d1 + 1) > d1 + 1
              THEN SkipIn(s, DigitSet, d1 + 1) ELSE d1
        x0 == IF CharAt(s, f1 + 1) = "-" THEN f1 + 2 ELSE f1 + 1
        x1 == SkipIn(s, DigitSet, x0)
        g1 == SkipIn(s, DigitSet, d1 + 1)
        h1 == SkipIn(s, DigitSet, n0 + 1)
        free(k) == CharAt(s, k) \notin NameStartChars
    IN  IF d1 > n0 /\ ToUpperC(CharAt(s, f1)) = "E" /\ x1 > x0 THEN x1
        ELSE IF s[i] \in NameStartChars THEN 0
        ELSE IF d1 > n0 /\ CharAt(s, d1) = "." /\ free(g1) THEN g1
        ELSE IF d1 > n0 /\ CharAt(s, d1) = "." /\ g1 > d1 + 1 THEN g1 - 1
        ELSE IF d1 = n0 /\ CharAt(s, n0) = "." /\ h1 > n0 + 1 /\ free(h1) THEN h1
        ELSE IF d1 = n0 /\ CharAt(s, n0) = "." /\ h1 > n0 + 2 THEN h1 - 1
        ELSE IF d1 > n0 /\ free(d1) THEN d1
        ELSE IF d1 > n0 + 1 THEN d1 - 1
        ELSE 0

\* the position after the token that starts at i
TokenEndDef(s, i) ==
    LET c == s[i]
        two == SelectSeq(TwoWordKeywords, LAMBDA kw : TwoWordEnd(s, i, kw[1], kw[2]) # 0)
    IN  IF c \in SpaceChars \/ c = "*" THEN i + 1
        ELSE IF NumberEnd(s, i) # 0 THEN NumberEnd(s, i)
        ELSE IF c \in QuoteChars /\ QuotedEnd(s, i) # 0 THEN QuotedEnd(s, i)
        ELSE IF c \in WordChars /\ Len(two) > 0 THEN TwoWordEnd(s, i, two[1][1], two[1][2])
        ELSE IF c \in WordChars THEN SkipIn(s, WordTail, i + 1)
        ELSE IF c \in PunctuationChars THEN i + 1
        ELSE IF c \in ComparisonChars THEN SkipIn(s, ComparisonChars, i)
        ELSE IF c \in OperatorChars THEN SkipIn(s, OperatorChars, i)
        ELSE i + 1

\* str(token) for the tokens of parsed.flatten(), white space included;
\* the statement ends with its first semicolon
RECURSIVE TokensFromDef(_, _)
TokensFromDef(s, i) ==
    IF i > Len(s) THEN <<>>
    ELSE IF s[i] = ";" THEN <<<<";">>>>
    ELSE <<Slice(s, i, TokenEnd(s, i) - 1)>> \o TokensFromDef(s, TokenEnd(s, i))
TokensDef(s) == TokensFrom(s, 1)

\* token.is_whitespace
IsWhitespaceDef(token) == token[1] \in SpaceChars

-----------------------------------------------------------------------------
(* SQLParser: the clauses of a SELECT statement.  tokens is the sequence    *)
(* of token texts; positions are counted from 1, and an Optional value is a *)
(* sequence of no or one element.                                           *)

AttributeDef(relation, name, alias, aggregate) ==
    [relation |-> relation, name |-> name, alias |-> alias, aggregate |-> aggregate]

\* str(token).strip().upper()
TokUpperDef(tokens, k) == Upper(Strip(tokens[k]))

\* the members of a set of positions, in increasing order
SortedPositionsDef(S) ==
    [i \in 1..Cardinality(S) |-> CHOOSE x \in S : Cardinality({y \in S : y < x}) = i - 1]

\* the token texts collected between the separators of tokens[a..b], one
\* sequence for each stretch that has any
TokenGroups(tokens, a, b, IsSep(_)) ==
    LET seps == SortedPositions({k \in a..b : IsSep(k)})
        n == Len(seps)
        lo(i) == IF i = 1 THEN a ELSE seps[i - 1] + 1
        hi(i) == IF i = n + 1 THEN b ELSE seps[i] - 1
        parts(i) == LET sub == Slice(tokens, lo(i), hi(i))
                        kept == SelectSeq(sub, LAMBDA t : ~IsWhitespace(t))
                    IN  [j \in 1..Len(kept) |-> Strip(kept[j])]
    IN  SelectSeq([i \in 1..(n + 1) |-> parts(i)], LAMBDA g : Len(g) > 0)

\* the first position from start where a clause ends; len(tokens) if none
ClauseEnd(tokens, start, IsEnd(_)) ==
    LET k == FirstAt(start, Len(tokens), IsEnd)
    IN  IF k = 0 THEN (IF start > Len(tokens) THEN start ELSE Len(tokens) + 1) ELSE k

\* the test for ORDER followed by a BY token
OrderThenByDef(tokens, k) ==
    /\ TokUpper(tokens, k) = kORDER
    /\ k + 1 <= Len(tokens)
    /\ TokUpper(tokens, k + 1) = kBY

\* 'table.attribute' or 'attribute'
RelationAndNameDef(attr_str, stripped) ==
    LET parts == SplitOn(attr_str, <<".">>)
        f(t) == IF stripped THEN Strip(t) ELSE t
    IN  IF Contains(attr_str, <<".">>) THEN <<f(parts[1]), f(parts[2])>>
        ELSE <<<<>>, f(attr_str)>>

\* re.match(rf'{agg_name}\s*\(\s*([^)]+)\s*\)', attr_str, re.IGNORECASE):
\* group 1 stripped, in a sequence; <<>> if there is no match
AggregateArgumentDef(attr_str, agg_name) ==
    LET p == SkipIn(attr_str, SpaceChars, Len(agg_name) + 1)
        q == FindFrom(attr_str, <<")">>, p + 1)
    IN  IF /\ StartsAtI(attr_str, agg_name, 1)
           /\ CharAt(attr_str, p) = "("
           /\ q > p + 1
        THEN <<Strip(Slice(attr_str, p + 1, q - 1))>>
        ELSE <<>>

\* _add_attribute
AddAttributeDef(attr_parts) ==
    LET joined == Join(attr_parts, <<" ">>)
        hasAs == Contains(Upper(joined), <<" ", "A", "S", " ">>)
        parts == ReSplitKw(joined, kAS)
        attr_str == IF hasAs THEN Strip(parts[1]) ELSE joined
        alias == IF hasAs /\ Len(parts) > 1 THEN <<Strip(parts[2])>> ELSE <<>>
        aggs == SelectSeq(AggNames, LAMBDA a : AggregateArgument(attr_str, a) # <<>>)
        inner == IF Len(aggs) > 0 THEN AggregateArgument(attr_str, aggs[1])[1] ELSE attr_str
        rn == RelationAndName(inner, TRUE)
    IN  Attribute(rn[1], rn[2], alias, IF Len(aggs) > 0 THEN <<aggs[1]>> ELSE <<>>)

\* paren_depth of _parse_select_clause before the token at k
TokenDepthDef(tokens, start, k) ==
    Cardinality({j \in start..(k - 1) : Strip(tokens[j]) = <<"(">>})
    - Cardinality({j \in start..(k - 1) : Strip(tokens[j]) = <<")">>})

\* _parse_select_clause
ParseSelectClauseDef(tokens, start_idx) ==
    LET end == ClauseEnd(tokens, start_idx,
                         LAMBDA k : TokUpper(tokens, k) = kFROM
                                    /\ TokenDepth(tokens, start_idx, k) = 0)
        groups == TokenGroups(tokens, start_idx, end - 1,
                              LAMBDA k : Strip(tokens[k]) = <<",">>
                                         /\ TokenDepth(tokens, start_idx, k) = 0)
    IN  [idx |-> end, attributes |-> [i \in 1..Len(groups) |-> AddAttribute(groups[i])]]

\* _parse_from_clause
ParseFromClauseDef(tokens, start_idx) ==
    LET end == ClauseEnd(tokens, start_idx,
                         LAMBDA k : \/ TokUpper(tokens, k) \in
                                         {kWHERE, kGROUP, kGROUP_BY, kHAVING, kORDER_BY, kLIMIT, <<";">>}
                                    \/ OrderThenBy(tokens, k))
        groups == TokenGroups(tokens, start_idx, end - 1, LAMBDA k : Strip(tokens[k]) = <<",">>)
        names == [i \in 1..Len(groups) |-> Strip(Join(groups[i], <<" ">>))]
    IN  [idx |-> end, tables |-> SelectSeq(names, LAMBDA t : Len(t) > 0)]

\* the text that _parse_where_clause builds from the tokens a..b: no space
\* around a dot, none after an opening parenthesis or a comma
ConditionTextDef(tokens, a, b) ==
    LET at == SortedPositions({k \in a..b : ~IsWhitespace(tokens[k])})
        tok(i) == Strip(tokens[at[i]])
        piece(i) == IF i = 1 \/ tok(i) = <<".">> THEN tok(i)
                    ELSE IF tok(i - 1)[Len(tok(i - 1))] \in {".", "(", ","} THEN tok(i)
                    ELSE <<" ">> \o tok(i)
    IN  Join([i \in 1..Len(at) |-> piece(i)], <<>>)

-----------------------------------------------------------------------------
(* SQLParser: conditions                                                    *)

WordDotChars == WordChars \cup {"."}
RelationalChars == {"=", "<", ">", "!"}
kNOT_IN == <<kNOT, kIN>>
kNOT_BETWEEN == <<kNOT, kBETWEEN>>

\* .strip().strip("'\"").rstrip(';')
ConditionValueDef(text) == RStripSet(StripSet(Strip(text), QuoteChars), {";"})

\* re.match(r'(\w+)\.(\w+)\s*(=)\s*(\w+)\.(\w+)', cond)
JoinMatchDef(cond) ==
    LET a == SkipIn(cond, WordChars, 1)
        b == SkipIn(cond, WordChars, a + 1)
        e == SkipIn(cond, SpaceChars, b)
        c == SkipIn(cond, SpaceChars, e + 1)
        d == SkipIn(cond, WordChars, c)
        f == SkipIn(cond, WordChars, d + 1)
    IN  IF /\ a > 1 /\ CharAt(cond, a) = "."
           /\ b > a + 1 /\ CharAt(cond, e) = "="
           /\ d > c /\ CharAt(cond, d) = "."
           /\ f > d + 1
        THEN [ok |-> TRUE,
              left_operand |-> Attribute(Slice(cond, 1, a - 1), Slice(cond, a + 1, b - 1), <<>>, <<>>),
              right_operand |-> Attribute(Slice(cond, c, d - 1), Slice(cond, d + 1, f - 1), <<>>, <<>>)]
        ELSE [ok |-> FALSE]

\* the match of ([=<>!]+)\s*(.+) that begins at p: operator and value
RelationalTailDef(cond, p) ==
    LET r == SkipIn(cond, RelationalChars, p)
        v == SkipIn(cond, SpaceChars, r)
    IN  IF r = p THEN [ok |-> FALSE]
        ELSE IF v <= Len(cond)
        THEN [ok |-> TRUE, operator |-> Slice(cond, p, r - 1),
              value |-> Slice(cond, v, LineEnd(cond, v) - 1)]
        ELSE IF r - 1 > p /\ r > Len(cond)
        THEN [ok |-> TRUE, operator |-> Slice(cond, p, r - 2), value |-> <<cond[r - 1]>>]
        ELSE [ok |-> FALSE]

\* re.match(r'(\([^)]+\))\s*([=<>!]+)\s*(.+)', cond)
ExprMatchDef(cond) ==
    LET q == FindFrom(cond, <<")">>, 2)
        t == RelationalTail(cond, SkipIn(cond, SpaceChars, q + 1))
    IN  IF CharAt(cond, 1) = "(" /\ q > 2 /\ t.ok
        THEN [ok |-> TRUE, attribute |-> Attribute(<<>>, Slice(cond, 1, q), <<>>, <<>>),
              operator |-> t.operator, value |-> ConditionValue(t.value)]
        ELSE [ok |-> FALSE]

\* the match of (KEYWORD)\s*(.+) that begins at p, the keyword given by
\* its words, which white space separates
WordTailMatchDef(cond, p, words) ==
    LET w == SkipIn(cond, SpaceChars, p + Len(words[1]))
        e == IF Len(words) = 1 THEN p + Len(words[1]) ELSE w + Len(words[2])
        v == SkipIn(cond, SpaceChars, e)
    IN  IF /\ StartsAtI(cond, words[1], p)
           /\ Len(words) = 2 => (w > p + Len(words[1]) /\ StartsAtI(cond, words[2], w))
           /\ v <= Len(cond)
        THEN [ok |-> TRUE, operator |-> Slice(cond, p, e - 1),
              value |-> Slice(cond, v, LineEnd(cond, v) - 1)]
        ELSE [ok |-> FALSE]

\* the alternatives of the operator group, in the order of the pattern
OperatorTailsDef(cond, p) ==
    SelectSeq(<<RelationalTail(cond, p), WordTailMatch(cond, p, <<kLIKE>>),
                WordTailMatch(cond, p, <<kIN>>), WordTailMatch(cond, p, <<kBETWEEN>>),
                WordTailMatch(cond, p, kNOT_IN), WordTailMatch(cond, p, kNOT_BETWEEN)>>,
              LAMBDA t : t.ok)

\* re.match(r'([\w.]+)\s*([=<>!]+|LIKE|IN|BETWEEN|NOT\s+IN|NOT\s+BETWEEN)\s*(.+)',
\* cond, re.IGNORECASE)
CompMatchDef(cond) ==
    LET run == SkipIn(cond, WordDotChars, 1) - 1
        tails(e) == OperatorTails(cond, SkipIn(cond, SpaceChars, e + 1))
        e == LastAt(1, run, LAMBDA k : Len(tails(k)) > 0)
        t == tails(e)[1]
        rn == RelationAndName(Slice(cond, 1, e), FALSE)
    IN  IF e = 0 THEN [ok |-> FALSE]
        ELSE [ok |-> TRUE, attribute |-> Attribute(rn[1], rn[2], <<>>, <<>>),
              operator |-> t.operator, value |-> ConditionValue(t.value)]

\* _parse_conditions: the join conditions and the where conditions of a text
ParseConditionsDef(condition_str) ==
    LET split == ReSplitKw(condition_str, kAND)
        conds == SelectSeq([i \in 1..Len(split) |-> Strip(split[i])], LAMBDA c : Len(c) > 0)
        isJoin(c) == JoinMatch(c).ok
        where(c) == IF ExprMatch(c).ok THEN ExprMatch(c) ELSE CompMatch(c)
        joins == SelectSeq(conds, isJoin)
        others == SelectSeq(conds, LAMBDA c : ~isJoin(c) /\ where(c).ok)
    IN  [join_conditions |-> [i \in 1..Len(joins) |->
                                [left_operand |-> JoinMatch(joins[i]).left_operand,
                                 right_operand |-> JoinMatch(joins[i]).right_operand]],
         where_conditions |-> [i \in 1..Len(others) |->
                                [attribute |-> where(others[i]).attribute,
                                 operator |-> where(others[i]).operator,
                                 value |-> where(others[i]).value]]]

\* _parse_where_clause
ParseWhereClauseDef(tokens, start_idx) ==
    LET end == ClauseEnd(tokens, start_idx,
                         LAMBDA k : \/ TokUpper(tokens, k) \in
                                         {kGROUP, kGROUP_BY, kHAVING, kLIMIT, kUNION,
                                          kINTERSECT, kEXCEPT, kORDER_BY, <<";">>}
                                    \/ OrderThenBy(tokens, k))
    IN  [idx |-> end,
         conditions |-> ParseConditions(Strip(ConditionText(tokens, start_idx, end - 1)))]

-----------------------------------------------------------------------------
(* SQLParser: GROUP BY, HAVING, ORDER BY, LIMIT and OFFSET                  *)

IsCommaDef(tokens, k) == Strip(tokens[k]) = <<",">>

\* _parse_group_by_clause with _add_group_by_attribute
ParseGroupByClauseDef(tokens, start_idx) ==
    LET end == ClauseEnd(tokens, start_idx,
                         LAMBDA k : TokUpper(tokens, k) \in
                                      {kHAVING, kORDER, kORDER_BY, kLIMIT, <<";">>})
        groups == TokenGroups(tokens, start_idx, end - 1, LAMBDA k : IsComma(tokens, k))
        attr(i) == LET rn == RelationAndName(Join(groups[i], <<" ">>), TRUE)
                   IN  Attribute(rn[1], rn[2], <<>>, <<>>)
    IN  [idx |-> end, attributes |-> [i \in 1..Len(groups) |-> attr(i)]]

\* _parse_having_conditions:
\* re.match(r'(\w+)\s*\(\s*([\w.]+)\s*\)\s*([=<>!]+)\s*(.+)', condition_str)
ParseHavingConditionsDef(condition_str) ==
    LET a == SkipIn(condition_str, WordChars, 1)
        p == SkipIn(condition_str, SpaceChars, a)
        g == SkipIn(condition_str, SpaceChars, p + 1)
        h == SkipIn(condition_str, WordDotChars, g)
        i == SkipIn(condition_str, SpaceChars, h)
        t == RelationalTail(condition_str, SkipIn(condition_str, SpaceChars, i + 1))
        agg_func == Upper(Slice(condition_str, 1, a - 1))
        rn == RelationAndName(Slice(condition_str, g, h - 1), FALSE)
    IN  IF /\ a > 1 /\ CharAt(condition_str, p) = "("
           /\ h > g /\ CharAt(condition_str, i) = ")"
           /\ t.ok
        THEN <<[attribute |-> Attribute(rn[1], rn[2], <<>>,
                                IF InSeq(agg_func, AggNames) THEN <<agg_func>> ELSE <<>>),
                operator |-> t.operator, value |-> Strip(t.value)]>>
        ELSE <<>>

\* _parse_having_clause
ParseHavingClauseDef(tokens, start_idx) ==
    LET end == ClauseEnd(tokens, start_idx,
                         LAMBDA k : TokUpper(tokens, k) \in {kORDER, kLIMIT, <<";">>})
        groups == TokenGroups(tokens, start_idx, end - 1, LAMBDA k : FALSE)
    IN  [idx |-> end,
         having |-> IF Len(groups) = 0 THEN <<>>
                    ELSE ParseHavingConditions(Join(groups[1], <<" ">>))]

\* _add_order_by_attribute
AddOrderByAttributeDef(attr_parts, direction) ==
    LET attr_str == Strip(Replace(Replace(Join(attr_parts, <<" ">>), kASC, <<>>), kDESC, <<>>))
        rn == RelationAndName(attr_str, TRUE)
    IN  <<Attribute(rn[1], rn[2], <<>>, <<>>), direction>>

\* the loop of _parse_order_by_clause from token idx on; st holds current_attr,
\* direction and the attributes added so far
RECURSIVE OrderByStepDef(_, _, _)
OrderByStepDef(tokens, idx, st) ==
    LET token_str == TokUpper(tokens, idx)
        added == IF Len(st.current_attr) > 0
                 THEN Append(st.order_by, AddOrderByAttribute(st.current_attr, st.direction))
                 ELSE st.order_by
    IN  IF idx > Len(tokens) \/ token_str \in {kLIMIT, kOFFSET, <<";">>}
        THEN [idx |-> idx, order_by |-> added]
        ELSE IF token_str \in {kASC, kDESC}
        THEN OrderByStepDef(tokens, idx + 1, [st EXCEPT !.direction = token_str])
        ELSE IF token_str = <<",">>
        THEN OrderByStepDef(tokens, idx + 1,
                 IF Len(st.current_attr) > 0
                 THEN [current_attr |-> <<>>, direction |-> kASC, order_by |-> added]
                 ELSE st)
        ELSE IF ~IsWhitespace(tokens[idx])
        THEN OrderByStepDef(tokens, idx + 1, [st EXCEPT !.current_attr = Append(@, tokens[idx])])
        ELSE OrderByStepDef(tokens, idx + 1, st)

\* _parse_order_by_clause
ParseOrderByClauseDef(tokens, start_idx) ==
    OrderByStep(tokens, start_idx, [current_attr |-> <<>>, direction |-> kASC, order_by |-> <<>>])

\* int() of a text of digits
RECURSIVE DigitsValueDef(_)
DigitsValueDef(s) ==
    IF Len(s) = 0 THEN 0
    ELSE 10 * DigitsValueDef(Slice(s, 1, Len(s) - 1))
         + (CHOOSE d \in 0..9 : NatText(d) = <<s[Len(s)]>>)

\* _parse_limit_clause and _parse_offset_clause
ParseCountClauseDef(tokens, start_idx) ==
    IF start_idx <= Len(tokens) /\ IsDigits(Strip(tokens[start_idx]))
    THEN [idx |-> start_idx + 1, count |-> <<DigitsValue(Strip(tokens[start_idx]))>>]
    ELSE [idx |-> start_idx, count |-> <<>>]

-----------------------------------------------------------------------------
(* SQLParser: statements                                                    *)

EmptyQueryDef(type) ==
    [type |-> type, select_attributes |-> <<>>, from_tables |-> <<>>,
     where_conditions |-> <<>>, join_conditions |-> <<>>, group_by |-> <<>>,
     having |-> <<>>, order_by |-> <<>>, limit |-> <<>>, offset |-> <<>>,
     insert_table |-> <<>>, insert_values |-> <<>>, delete_table |-> <<>>,
     combination_type |-> <<>>]

SkippedTokens == {<<",">>, <<";">>, <<"(">>, <<")">>}

\* _parse_select_query, from the token at idx on
RECURSIVE ParseSelectQueryDef(_, _, _)
ParseSelectQueryDef(tokens, idx, query) ==
    LET k == FirstAt(idx, Len(tokens),
                     LAMBDA j : ~IsWhitespace(tokens[j]) /\ tokens[j] \notin SkippedTokens)
        keyword == Upper(tokens[k])
        by == k + 1 <= Len(tokens) /\ Upper(tokens[k + 1]) = kBY
        sel == ParseSelectClause(tokens, k + 1)
        from == ParseFromClause(tokens, k + 1)
        where == ParseWhereClause(tokens, k + 1)
        group == ParseGroupByClause(tokens, IF keyword = kGROUP_BY THEN k + 1 ELSE k + 2)
        having == ParseHavingClause(tokens, k + 1)
        order == ParseOrderByClause(tokens, IF keyword = kORDER_BY THEN k + 1 ELSE k + 2)
        count == ParseCountClause(tokens, k + 1)
    IN  IF k = 0 THEN query
        ELSE IF keyword = kSELECT
        THEN ParseSelectQueryDef(tokens, sel.idx,
                 [query EXCEPT !.select_attributes = @ \o sel.attributes])
        ELSE IF keyword = kFROM
        THEN ParseSelectQueryDef(tokens, from.idx, [query EXCEPT !.from_tables = @ \o from.tables])
        ELSE IF keyword = kWHERE
        THEN ParseSelectQueryDef(tokens, where.idx,
                 [query EXCEPT !.join_conditions = @ \o where.conditions.join_conditions,
                               !.where_conditions = @ \o where.conditions.where_conditions])
        ELSE IF keyword = kGROUP_BY \/ (keyword = kGROUP /\ by)
        THEN ParseSelectQueryDef(tokens, group.idx, [query EXCEPT !.group_by = @ \o group.attributes])
        ELSE IF keyword = kHAVING
        THEN ParseSelectQueryDef(tokens, having.idx, [query EXCEPT !.having = @ \o having.having])
        ELSE IF keyword = kORDER_BY \/ (keyword = kORDER /\ by)
        THEN ParseSelectQueryDef(tokens, order.idx, [query EXCEPT !.order_by = @ \o order.order_by])
        ELSE IF keyword = kLIMIT
        THEN ParseSelectQueryDef(tokens, count.idx,
                 IF count.count = <<>> THEN query ELSE [query EXCEPT !.limit = count.count])
        ELSE IF keyword = kOFFSET
        THEN ParseSelectQueryDef(tokens, count.idx,
                 IF count.count = <<>> THEN query ELSE [query EXCEPT !.offset = count.count])
        ELSE IF keyword \in {kUNION, kINTERSECT, kEXCEPT}
        THEN ParseSelectQueryDef(tokens, k + 1, [query EXCEPT !.combination_type = <<keyword>>])
        ELSE ParseSelectQueryDef(tokens, k + 1, query)

\* the pairs of zip(columns, values) put into a dict one after the other
RECURSIVE ZipDictDef(_, _, _)
ZipDictDef(columns, values, d) ==
    IF Len(columns) = 0 \/ Len(values) = 0 THEN d
    ELSE ZipDictDef(Tail(columns), Tail(values), DictSet(d, columns[1], values[1]))

\* _parse_insert_query:
\* re.match(r'INSERT\s+INTO\s+(\w+)\s*\(([^)]+)\)\s*VALUES\s*\(([^)]+)\)', query_str)
ParseInsertQueryDef(query_str, query) ==
    LET a == SkipIn(query_str, SpaceChars, Len(kINSERT) + 1)
        b == SkipIn(query_str, SpaceChars, a + Len(kINTO))
        c == SkipIn(query_str, WordChars, b)
        d == SkipIn(query_str, SpaceChars, c)
        e == FindFrom(query_str, <<")">>, d + 1)
        f == SkipIn(query_str, SpaceChars, e + 1)
        g == SkipIn(query_str, SpaceChars, f + Len(kVALUES))
        h == FindFrom(query_str, <<")">>, g + 1)
        cols == SplitOn(Slice(query_str, d + 1, e - 1), <<",">>)
        vals == SplitOn(Slice(query_str, g + 1, h - 1), <<",">>)
        columns == [i \in 1..Len(cols) |-> Strip(cols[i])]
        values == [i \in 1..Len(vals) |-> StripSet(Strip(vals[i]), QuoteChars)]
    IN  IF /\ StartsAtI(query_str, kINSERT, 1) /\ a > Len(kINSERT) + 1
           /\ StartsAtI(query_str, kINTO, a) /\ b > a + Len(kINTO)
           /\ c > b /\ CharAt(query_str, d) = "(" /\ e > d + 1
           /\ StartsAtI(query_str, kVALUES, f)
           /\ CharAt(query_str, g) = "(" /\ h > g + 1
        THEN [query EXCEPT !.insert_table = <<Slice(query_str, b, c - 1)>>,
                           !.insert_values = ZipDict(columns, values, <<>>)]
        ELSE query

\* _parse_delete_query:
\* re.match(r'DELETE\s+FROM\s+(\w+)(?:\s+WHERE\s+(.+))?', query_str)
ParseDeleteQueryDef(query_str, query) ==
    LET a == SkipIn(query_str, SpaceChars, Len(kDELETE) + 1)
        b == SkipIn(query_str, SpaceChars, a + Len(kFROM))
        c == SkipIn(query_str, WordChars, b)
        d == SkipIn(query_str, SpaceChars, c)
        e == SkipIn(query_str, SpaceChars, d + Len(kWHERE))
        hasWhere == /\ d > c /\ StartsAtI(query_str, kWHERE, d)
                    /\ e > d + Len(kWHERE) /\ e <= Len(query_str)
        conds == ParseConditions(Slice(query_str, e, LineEnd(query_str, e) - 1))
        table == Slice(query_str, b, c - 1)
    IN  IF /\ StartsAtI(query_str, kDELETE, 1) /\ a > Len(kDELETE) + 1
           /\ StartsAtI(query_str, kFROM, a) /\ b > a + Len(kFROM)
           /\ c > b
        THEN [query EXCEPT !.delete_table = <<table>>,
                           !.from_tables = <<table>>,
                           !.join_conditions = IF hasWhere THEN conds.join_conditions ELSE <<>>,
                           !.where_conditions = IF hasWhere THEN conds.where_conditions ELSE <<>>]
        ELSE query

\* the keywords that sqlparse gives the type DML, of which _get_query_type
\* knows four
DMLWords == {kSELECT, kINSERT, kDELETE, kUPDATE}

\* whether the token at k is a DML keyword at the top level of the statement:
\* a word before '(' or '.' is lexed as a name, and a parenthesis is a group
IsDMLDef(tokens, k) ==
    LET n == FirstAt(k + 1, Len(tokens), LAMBDA j : ~IsWhitespace(tokens[j]))
    IN  /\ Upper(tokens[k]) \in DMLWords
        /\ TokenDepth(tokens, 1, k) = 0
        /\ ~(k + 1 <= Len(tokens) /\ tokens[k + 1] = <<"(">>)
        /\ ~(n # 0 /\ tokens[n] = <<".">>)

\* parse: the parsed query, or the ValueError it raises
ParseDef(sql_query) ==
    LET stripped == Strip(sql_query)
        text == IF EndsWith(stripped, <<";">>) THEN stripped ELSE stripped \o <<";">>
        tokens == Tokens(text)
        query_str == Strip(Join(tokens, <<>>))
        k == FirstAt(1, Len(tokens), LAMBDA j : IsDML(tokens, j))
        query_type == Upper(tokens[k])
    IN  IF k = 0 \/ query_type = kUPDATE THEN [ok |-> FALSE, error |-> "ValueError"]
        ELSE [ok |-> TRUE,
              query |-> IF query_type = kSELECT
                        THEN ParseSelectQuery(tokens, 1, EmptyQuery(query_type))
                        ELSE IF query_type = kINSERT
                        THEN ParseInsertQuery(query_str, EmptyQuery(query_type))
                        ELSE ParseDeleteQuery(query_str, EmptyQuery(query_type))]

-----------------------------------------------------------------------------
(* Triple, SelectConverter and WhereConverter                               *)

lSubjVar == <<"?","s">>
lObjVar == <<"?","o">>
lValueSuffix == <<"_","v","a","l","u","e">>
lJoinVar == <<"?","j","o","i","n","_">>
lAggSuffix == <<"_","a","g","g">>
lEqSp == <<" ","="," ">>
lNe == <<"!","=">>

TripleDef(subject, predicate, object) ==
    [subject |-> subject, predicate |-> predicate, object |-> object]

\* Triple.to_sparql_pattern
ToSparqlPatternDef(t) == t.subject \o <<" ">> \o t.predicate \o <<" ">> \o t.object

\* _get_predicate_uri and _get_type_uri, the same in every converter
GetPredicateUriDef(attribute_name) == kOntology \o attribute_name \o <<">">>
GetTypeUriDef(relation_name) == kTypes \o Title(relation_name) \o <<">">>

\* SelectConverter._apply_aggregate
ApplyAggregateDef(variable, aggregate, alias) ==
    <<"(">> \o aggregate \o <<"(">> \o variable \o <<")">> \o lAsSp
    \o (IF alias # <<>> /\ Len(alias[1]) > 0 THEN <<"?">> \o alias[1]
        ELSE variable \o lAggSuffix)
    \o <<")">>

\* SelectConverter.convert: subject_vars gets a key for each relation when
\* it first occurs, so a relation's variable counts the relations before it
SelectConvertDef(attributes) ==
    LET first(i) == CHOOSE j \in 1..i :
                        /\ attributes[j].relation = attributes[i].relation
                        /\ \A x \in 1..(j - 1) : attributes[x].relation # attributes[i].relation
        subject_var(i) ==
            lSubjVar \o NatText(Cardinality({attributes[j].relation : j \in 1..(first(i) - 1)}))
        isSubject(i) == Lower(attributes[i].name) = kSubject
        base(i) == IF isSubject(i) THEN subject_var(i) ELSE lObjVar \o NatText(i - 1)
        var(i) == IF attributes[i].aggregate # <<>>
                  THEN ApplyAggregate(base(i), attributes[i].aggregate[1], attributes[i].alias)
                  ELSE base(i)
        pattern(i) == IF isSubject(i)
                      THEN Triple(subject_var(i), kRdfType, GetTypeUri(attributes[i].relation))
                      ELSE Triple(subject_var(i), GetPredicateUri(attributes[i].name), base(i))
    IN  [sparql_vars |-> [i \in 1..Len(attributes) |-> var(i)],
         triple_patterns |-> [i \in 1..Len(attributes) |-> pattern(i)]]

\* WhereConverter._extract_subject_vars
RECURSIVE WhereExtractSubjectVarsDef(_, _)
WhereExtractSubjectVarsDef(subject_vars, patterns) ==
    IF Len(patterns) = 0 THEN subject_vars
    ELSE WhereExtractSubjectVarsDef(DictSet(subject_vars, patterns[1].subject, patterns[1].subject),
                                 Tail(patterns))

\* _get_subject_var without its lookup: it gives the relation a new variable
\* at every call
WhereAllocSubjectVar(subject_vars, relation) ==
    DictSet(subject_vars, relation, lSubjVar \o NatText(Len(subject_vars)))

\* WhereConverter._get_subject_var: the dict after the call; the variable
\* returned is its entry for the relation
WhereGetSubjectVarDef(subject_vars, relation) ==
    IF DictHas(subject_vars, relation) THEN subject_vars
    ELSE DictSet(subject_vars, relation, lSubjVar \o NatText(Len(subject_vars)))

\* WhereConverter._build_filter_expression
WhereBuildFilterExpressionDef(variable, operator, value) ==
    LET value_str == IF IsFloat(value) THEN value ELSE <<"\"">> \o value \o <<"\"">>
        up == Upper(operator)
        sparql_op == IF up = <<"<", ">">> THEN lNe ELSE operator
        pattern == Replace(Replace(value, <<"%">>, lDotStar), <<"_">>, <<".">>)
    IN  IF up = kLIKE
        THEN lRegexOpen \o variable \o lRegexMid \o pattern \o lRegexEnd
        ELSE variable \o <<" ">> \o sparql_op \o <<" ">> \o value_str

\* the shared variable of a join, were it the same for every join
JoinFixedVar(patterns) == lJoinVar \o <<"0">>

\* shared_var of _process_join_conditions, given the patterns so far
JoinSharedVarDef(patterns) == lJoinVar \o NatText(Len(patterns))

\* WhereConverter._process_join_conditions, for the conditions from i on; st
\* holds self.subject_vars, the patterns so far and self.filter_conditions
RECURSIVE ProcessJoinConditionsDef(_, _, _)
ProcessJoinConditionsDef(join_conditions, i, st) ==
    LET left_op == join_conditions[i].left_operand
        right_op == join_conditions[i].right_operand
        sv1 == WhereGetSubjectVar(st.subject_vars, left_op.relation)
        sv2 == WhereGetSubjectVar(sv1, right_op.relation)
        left_subj == DictGet(sv1, left_op.relation, <<>>)
        right_subj == DictGet(sv2, right_op.relation, <<>>)
        leftIsSubject == Lower(left_op.name) = kSubject
        rightIsSubject == Lower(right_op.name) = kSubject
        shared_var == JoinSharedVar(st.patterns)
        next == [st EXCEPT !.subject_vars = sv2]
    IN  IF i > Len(join_conditions) THEN st
        ELSE IF leftIsSubject /\ rightIsSubject
        THEN ProcessJoinConditionsDef(join_conditions, i + 1,
                 [next EXCEPT !.filter_conditions = Append(@, left_subj \o lEqSp \o right_subj)])
        ELSE IF leftIsSubject
        THEN ProcessJoinConditionsDef(join_conditions, i + 1,
                 [next EXCEPT !.patterns =
                     Append(@, Triple(right_subj, GetPredicateUri(right_op.name), left_subj))])
        ELSE IF rightIsSubject
        THEN ProcessJoinConditionsDef(join_conditions, i + 1,
                 [next EXCEPT !.patterns =
                     Append(@, Triple(left_subj, GetPredicateUri(left_op.name), right_subj))])
        ELSE ProcessJoinConditionsDef(join_conditions, i + 1,
                 [next EXCEPT !.patterns =
                     @ \o <<Triple(left_subj, GetPredicateUri(left_op.name), shared_var),
                            Triple(right_subj, GetPredicateUri(right_op.name), shared_var)>>])

\* WhereConverter._process_boolean_conditions, for the conditions from i on;
\* st holds self.subject_vars, the patterns and the filters so far
RECURSIVE ProcessBooleanConditionsDef(_, _, _)
ProcessBooleanConditionsDef(where_conditions, i, st) ==
    LET cond == where_conditions[i]
        attr == cond.attribute
        sv == WhereGetSubjectVar(st.subject_vars, attr.relation)
        subject_var == DictGet(sv, attr.relation, <<>>)
        object_var == <<"?">> \o attr.name \o lValueSuffix
    IN  IF i > Len(where_conditions) THEN st
        ELSE IF Lower(attr.name) = kSubject
        THEN ProcessBooleanConditionsDef(where_conditions, i + 1,
                 [subject_vars |-> sv,
                  patterns |-> IF Len(attr.relation) > 0
                               THEN Append(st.patterns,
                                           Triple(subject_var, kRdfType, GetTypeUri(attr.relation)))
                               ELSE st.patterns,
                  filters |-> Append(st.filters,
                                     WhereBuildFilterExpression(subject_var, cond.operator, cond.value))])
        ELSE ProcessBooleanConditionsDef(where_conditions, i + 1,
                 [subject_vars |-> sv,
                  patterns |-> Append(st.patterns,
                                      Triple(subject_var, GetPredicateUri(attr.name), object_var)),
                  filters |-> Append(st.filters,
                                     WhereBuildFilterExpression(object_var, cond.operator, cond.value))])

\* WhereConverter.convert; w holds the converter's fields before the call,
\* the result its fields after it and what it returns
WhereConvertDef(join_conditions, where_conditions, existing_patterns, w) ==
    LET sv0 == IF Len(existing_patterns) > 0
               THEN WhereExtractSubjectVars(w.subject_vars, existing_patterns)
               ELSE w.subject_vars
        j == IF Len(join_conditions) > 0
             THEN ProcessJoinConditions(join_conditions, 1,
                      [subject_vars |-> sv0, patterns |-> <<>>,
                       filter_conditions |-> w.filter_conditions])
             ELSE [subject_vars |-> sv0, patterns |-> <<>>,
                   filter_conditions |-> w.filter_conditions]
        b == IF Len(where_conditions) > 0
             THEN ProcessBooleanConditions(where_conditions, 1,
                      [subject_vars |-> j.subject_vars, patterns |-> <<>>, filters |-> <<>>])
             ELSE [subject_vars |-> j.subject_vars, patterns |-> <<>>, filters |-> <<>>]
    IN  IF Len(join_conditions) = 0 /\ Len(where_conditions) = 0
        THEN [patterns |-> existing_patterns, filters |-> <<>>,
              fields |-> [w EXCEPT !.subject_vars = sv0]]
        ELSE [patterns |-> j.patterns \o b.patterns, filters |-> b.filters,
              fields |-> [subject_vars |-> b.subject_vars,
                          triple_patterns |-> j.patterns \o b.patterns,
                          filter_conditions |-> b.filters]]

-----------------------------------------------------------------------------
(* GroupHavingConverter                                                     *)

lGroupSuffix == <<"_","g","r","o","u","p">>
lHavingSuffix == <<"_","h","a","v","i","n","g">>

\* GroupHavingConverter._extract_subject_vars
RECURSIVE GroupExtractSubjectVarsDef(_, _)
GroupExtractSubjectVarsDef(subject_vars, patterns) ==
    IF Len(patterns) = 0 THEN subject_vars
    ELSE GroupExtractSubjectVarsDef(
             IF StartsWith(patterns[1].subject, lSubjVar)
             THEN DictSet(subject_vars, patterns[1].subject, patterns[1].subject)
             ELSE subject_vars,
             Tail(patterns))

\* GroupHavingConverter._get_subject_var: the dict after the call; the
\* variable returned is the first value of that dict
GroupGetSubjectVarDef(subject_vars, relation) ==
    IF Len(subject_vars) > 0 THEN subject_vars
    ELSE DictSet(subject_vars, relation, lSubjVar \o NatText(Len(subject_vars)))

\* GroupHavingConverter._pattern_exists
GroupPatternExistsDef(patterns, subject, predicate) ==
    \E i \in 1..Len(patterns) : patterns[i].subject = subject /\ patterns[i].predicate = predicate

\* GroupHavingConverter._find_object_var, in a sequence; <<>> for None
FindObjectVarDef(patterns, subject, predicate) ==
    LET i == FirstAt(1, Len(patterns),
                     LAMBDA k : patterns[k].subject = subject /\ patterns[k].predicate = predicate)
    IN  IF i = 0 THEN <<>> ELSE <<patterns[i].object>>

\* _find_select_var_for_attribute, in a sequence; <<>> for None
FindSelectVarForAttributeDef(attr, select_vars, select_patterns) ==
    LET i == FirstAt(1, Len(select_patterns),
                     LAMBDA k : /\ Len(select_patterns[k].predicate) > 0
                                /\ Contains(select_patterns[k].predicate, attr.name)
                                   \/ Len(attr.name) = 0
                                /\ k <= Len(select_vars))
        j == FirstAt(1, Len(select_vars),
                     LAMBDA k : \/ Len(attr.name) = 0
                                \/ Contains(Lower(LStripSet(select_vars[k], {"?"})), Lower(attr.name)))
    IN  IF i # 0 THEN <<select_vars[i]>>
        ELSE IF j # 0 THEN <<select_vars[j]>>
        ELSE <<>>

\* _build_aggregate_expr
BuildAggregateExprDef(variable, aggregate) == aggregate \o <<"(">> \o variable \o <<")">>

\* convert_group_by, for the attributes from i on; st holds self.subject_vars,
\* group_vars and additional_patterns
RECURSIVE GroupByStepDef(_, _, _, _, _, _)
GroupByStepDef(attrs, i, existing_patterns, select_vars, select_patterns, st) ==
    LET attr == attrs[i]
        sv == GroupGetSubjectVar(st.subject_vars, attr.relation)
        subject_var == sv[1][2]
        predicate_uri == GetPredicateUri(attr.name)
        selected == IF Len(select_vars) > 0
                    THEN FindSelectVarForAttribute(attr, select_vars, select_patterns)
                    ELSE <<>>
        exists == GroupPatternExists(existing_patterns, subject_var, predicate_uri)
        found == FindObjectVar(existing_patterns, subject_var, predicate_uri)
        fresh == <<"?">> \o attr.name \o lGroupSuffix
        object_var == IF selected # <<>> THEN selected[1]
                      ELSE IF exists /\ Len(found[1]) > 0 THEN found[1]
                      ELSE fresh
    IN  IF i > Len(attrs) THEN st
        ELSE IF Lower(attr.name) = kSubject
        THEN GroupByStepDef(attrs, i + 1, existing_patterns, select_vars, select_patterns,
                 [subject_vars |-> sv,
                  group_vars |-> Append(st.group_vars, subject_var),
                  additional_patterns |->
                      IF GroupPatternExists(existing_patterns, subject_var, kRdfType)
                      THEN st.additional_patterns
                      ELSE Append(st.additional_patterns,
                                  Triple(subject_var, kRdfType, GetTypeUri(attr.relation)))])
        ELSE GroupByStepDef(attrs, i + 1, existing_patterns, select_vars, select_patterns,
                 [subject_vars |-> sv,
                  group_vars |-> Append(st.group_vars, object_var),
                  additional_patterns |->
                      IF selected = <<>> /\ ~exists
                      THEN Append(st.additional_patterns, Triple(subject_var, predicate_uri, fresh))
                      ELSE st.additional_patterns])

\* GroupHavingConverter.convert_group_by
ConvertGroupByDef(group_by_attributes, existing_patterns, select_vars, select_patterns, subject_vars) ==
    GroupByStep(group_by_attributes, 1, existing_patterns, select_vars, select_patterns,
                [subject_vars |-> IF Len(existing_patterns) > 0
                                  THEN GroupExtractSubjectVars(subject_vars, existing_patterns)
                                  ELSE subject_vars,
                 group_vars |-> <<>>, additional_patterns |-> <<>>])

\* re.search(r'\?(\w+)', object_var).group(0), object_var itself if none
BaseVariableDef(object_var) ==
    LET i == FirstAt(1, Len(object_var) - 1,
                     LAMBDA k : object_var[k] = "?" /\ object_var[k + 1] \in WordChars)
    IN  IF i = 0 THEN object_var
        ELSE Slice(object_var, i, SkipIn(object_var, WordChars, i + 1) - 1)

\* convert_having, for the conditions from i on; st holds self.subject_vars
\* and having_exprs
RECURSIVE HavingStepDef(_, _, _, _, _, _)
HavingStepDef(conds, i, existing_patterns, select_vars, select_patterns, st) ==
    LET cond == conds[i]
        attr == cond.attribute
        sv == GroupGetSubjectVar(st.subject_vars, attr.relation)
        subject_var == sv[1][2]
        selected == IF Len(select_vars) > 0
                    THEN FindSelectVarForAttribute(attr, select_vars, select_patterns)
                    ELSE <<>>
        found == IF selected # <<>> THEN selected
                 ELSE FindObjectVar(existing_patterns, subject_var, GetPredicateUri(attr.name))
        object_var == IF found # <<>> /\ Len(found[1]) > 0 THEN found[1]
                      ELSE <<"?">> \o attr.name \o lHavingSuffix
        base == IF Contains(object_var, kAS) /\ Contains(object_var, <<"(">>)
                THEN BaseVariable(object_var) ELSE object_var
        agg_expr == BuildAggregateExpr(IF Lower(attr.name) = kSubject THEN subject_var ELSE base,
                                       attr.aggregate[1])
    IN  IF i > Len(conds) THEN st
        ELSE HavingStepDef(conds, i + 1, existing_patterns, select_vars, select_patterns,
                 [subject_vars |-> sv,
                  having_exprs |->
                      IF attr.aggregate = <<>> THEN st.having_exprs
                      ELSE Append(st.having_exprs,
                                  agg_expr \o <<" ">> \o cond.operator \o <<" ">> \o cond.value)])

\* GroupHavingConverter.convert_having
ConvertHavingDef(having_conditions, existing_patterns, select_vars, select_patterns, subject_vars) ==
    HavingStep(having_conditions, 1, existing_patterns, select_vars, select_patterns,
               [subject_vars |-> IF Len(existing_patterns) > 0
                                 THEN GroupExtractSubjectVars(subject_vars, existing_patterns)
                                 ELSE subject_vars,
                having_exprs |-> <<>>])

-----------------------------------------------------------------------------
(* InsertDeleteConverter; base_uri is its default, http://example.org/      *)

lDelSuffix == <<"_","d","e","l">>
lS0 == <<"?","s","0">>
lAnyP == <<"?","p">>
lAnyO == <<"?","o">>

\* the values that uuid.uuid4().hex[:8] is let to take
EntityIds == {<<"1","a","2","b","3","c","4","d">>, <<"9","f","8","e","7","d","6","c">>}

\* _format_value, of a text
FormatValueDef(value) ==
    IF StartsWith(value, kHttp) \/ StartsWith(value, kHttps) THEN <<"<">> \o value \o <<">">>
    ELSE IF IsFloat(value) THEN value
    ELSE <<"\"">>
         \o Replace(Replace(Replace(value, <<"\"">>, <<"\\", "\"">>), <<"\n">>, <<"\\", "n">>),
                    <<"\r">>, <<"\\", "r">>)
         \o <<"\"">>

\* InsertDeleteConverter._build_filter_expression
DeleteBuildFilterExpressionDef(variable, operator, value) ==
    LET up == Upper(operator)
        sparql_op == IF up = <<"<", ">">> THEN lNe ELSE operator
        pattern == Replace(Replace(value, <<"%">>, lDotStar), <<"_">>, <<".">>)
    IN  IF up = kLIKE
        THEN lRegexOpen \o variable \o lRegexMid \o pattern \o lRegexEnd
        ELSE variable \o <<" ">> \o sparql_op \o <<" ">> \o FormatValue(value)

\* _generate_subject_uri in angle brackets
SubjectUriDef(table_name, entity_id) ==
    <<"<">> \o kBaseUri \o table_name \o <<"/">> \o entity_id \o <<">">>

\* convert_insert
ConvertInsertDef(table_name, values, entity_id) ==
    LET kept == SelectSeq(values, LAMBDA p : Lower(p[1]) # kSubject)
    IN  <<Triple(SubjectUri(table_name, entity_id), kRdfType, GetTypeUri(table_name))>>
        \o [i \in 1..Len(kept) |->
              Triple(SubjectUri(table_name, entity_id), GetPredicateUri(kept[i][1]),
                     FormatValue(kept[i][2]))]

\* convert_delete without the line that deletes the type triple as well
ConvertDeleteKeepingType(table_name, where_conditions) ==
    LET type_pattern == Triple(lS0, kRdfType, GetTypeUri(table_name))
        isSubject(c) == Lower(c.attribute.name) = kSubject
        object_var(c) == <<"?">> \o c.attribute.name \o lDelSuffix
        named == SelectSeq(where_conditions, LAMBDA c : ~isSubject(c))
        pattern(c) == IF isSubject(c) THEN Triple(lS0, lAnyP, lAnyO)
                      ELSE Triple(lS0, GetPredicateUri(c.attribute.name), object_var(c))
        filter(c) == DeleteBuildFilterExpression(IF isSubject(c) THEN lS0 ELSE object_var(c),
                                                 c.operator, c.value)
    IN  IF Len(where_conditions) = 0
        THEN [delete_patterns |-> <<Triple(lS0, lAnyP, lAnyO)>>,
              where_patterns |-> <<type_pattern>>, filter_conditions |-> <<>>]
        ELSE [delete_patterns |->
                  [i \in 1..Len(where_conditions) |-> pattern(where_conditions[i])],
              where_patterns |-> <<type_pattern>> \o [i \in 1..Len(named) |-> pattern(named[i])],
              filter_conditions |->
                  [i \in 1..Len(where_conditions) |-> filter(where_conditions[i])]]

\* convert_delete
ConvertDeleteDef(table_name, where_conditions) ==
    LET type_pattern == Triple(lS0, kRdfType, GetTypeUri(table_name))
        isSubject(c) == Lower(c.attribute.name) = kSubject
        object_var(c) == <<"?">> \o c.attribute.name \o lDelSuffix
        named == SelectSeq(where_conditions, LAMBDA c : ~isSubject(c))
        pattern(c) == IF isSubject(c) THEN Triple(lS0, lAnyP, lAnyO)
                      ELSE Triple(lS0, GetPredicateUri(c.attribute.name), object_var(c))
        filter(c) == DeleteBuildFilterExpression(IF isSubject(c) THEN lS0 ELSE object_var(c),
                                                 c.operator, c.value)
    IN  IF Len(where_conditions) = 0
        THEN [delete_patterns |-> <<Triple(lS0, lAnyP, lAnyO), type_pattern>>,
              where_patterns |-> <<type_pattern>>, filter_conditions |-> <<>>]
        ELSE [delete_patterns |->
                  [i \in 1..Len(where_conditions) |-> pattern(where_conditions[i])]
                  \o <<type_pattern>>,
              where_patterns |-> <<type_pattern>> \o [i \in 1..Len(named) |-> pattern(named[i])],
              filter_conditions |->
                  [i \in 1..Len(where_conditions) |-> filter(where_conditions[i])]]

-----------------------------------------------------------------------------
(* SPARQLQuery                                                              *)

lInsertOpen == <<"I","N","S","E","R","T"," ","D","A","T","A"," ","{","\n">>
lDeleteOpen == <<"D","E","L","E","T","E"," ","{","\n">>
lWhereOpenNl == <<"W","H","E","R","E"," ","{","\n">>
lFilterIndent == <<" "," ","F","I","L","T","E","R","(">>
lOffsetSp == <<"O","F","F","S","E","T"," ">>
lHavingOpen == <<"H","A","V","I","N","G","(">>
lDotNl == <<" ",".","\n">>

EmptySparql ==
    [select_vars |-> <<>>, where_patterns |-> <<>>, filter_conditions |-> <<>>,
     group_by_vars |-> <<>>, having_conditions |-> <<>>, order_by_vars |-> <<>>,
     limit |-> <<>>, offset |-> <<>>, insert_triples |-> <<>>, delete_patterns |-> <<>>]

\* the lines "  s p o .\n" of a block
PatternLinesDef(patterns) ==
    Join([i \in 1..Len(patterns) |-> <<" ", " ">> \o ToSparqlPattern(patterns[i]) \o lDotNl], <<>>)

\* the lines "  FILTER(f)\n" of a block
FilterLinesDef(filters) ==
    Join([i \in 1..Len(filters) |-> lFilterIndent \o filters[i] \o <<")", "\n">>], <<>>)

\* _build_select_query
BuildSelectQueryDef(q) ==
    LET present(count) == count # <<>> /\ count[1] # 0
        order_parts == [i \in 1..Len(q.order_by_vars) |->
                          q.order_by_vars[i][2] \o <<"(">> \o q.order_by_vars[i][1] \o <<")">>]
    IN  Join(<<lSelectSp \o Join(q.select_vars, <<" ">>),
               lWhereOpenNl \o PatternLines(q.where_patterns)
               \o FilterLines(q.filter_conditions) \o <<"}">>>>
             \o (IF Len(q.group_by_vars) > 0
                 THEN <<lGroupBySp \o Join(q.group_by_vars, <<" ">>)>> ELSE <<>>)
             \o (IF Len(q.having_conditions) > 0
                 THEN <<lHavingOpen \o Join(q.having_conditions, lAndAnd) \o <<")">>>> ELSE <<>>)
             \o (IF Len(q.order_by_vars) > 0
                 THEN <<lOrderBySp \o Join(order_parts, <<" ">>)>> ELSE <<>>)
             \o (IF present(q.limit) THEN <<lLimitSp \o NatText(q.limit[1])>> ELSE <<>>)
             \o (IF present(q.offset) THEN <<lOffsetSp \o NatText(q.offset[1])>> ELSE <<>>),
             <<"\n">>)

\* _build_insert_query
BuildInsertQueryDef(q) == lInsertOpen \o PatternLines(q.insert_triples) \o <<"}">>

\* _build_delete_query
BuildDeleteQueryDef(q) ==
    lDeleteOpen \o PatternLines(q.delete_patterns) \o <<"}", "\n">>
    \o lWhereOpenNl \o PatternLines(q.where_patterns) \o FilterLines(q.filter_conditions)
    \o <<"}">>

\* SPARQLQuery.to_string
QueryToStringDef(q) ==
    IF Len(q.insert_triples) > 0 THEN BuildInsertQuery(q)
    ELSE IF Len(q.delete_patterns) > 0 THEN BuildDeleteQuery(q)
    ELSE BuildSelectQuery(q)

-----------------------------------------------------------------------------
(* SQL2SPARQLConverter: the standard path.  inst holds the fields of the    *)
(* converter and of its sub-converters that a later call reads.             *)

NewConverter ==
    [where_subject_vars |-> <<>>, where_filter_conditions |-> <<>>,
     group_subject_vars |-> <<>>, var_mappings |-> <<>>, current_from_table |-> <<>>]

\* the loops "if not self._pattern_exists(where_patterns, pattern): append"
RECURSIVE ExtendNewDef(_, _)
ExtendNewDef(where_patterns, patterns) ==
    IF Len(patterns) = 0 THEN where_patterns
    ELSE ExtendNewDef(AppendNew(where_patterns, patterns[1]), Tail(patterns))

\* _find_variable_for_attribute, in a sequence; <<>> for None
FindVariableForAttributeDef(select_vars) ==
    LET i == FirstAt(1, Len(select_vars), LAMBDA k : StartsWith(select_vars[k], lObjVar))
    IN  IF i # 0 THEN <<select_vars[i]>>
        ELSE IF Len(select_vars) > 0 THEN <<select_vars[1]>>
        ELSE <<>>

\* _convert_select_query: the SPARQL query and the fields after the call
ConvertSelectQueryDef(sql_query, inst) ==
    LET sel == SelectConvert(sql_query.select_attributes)
        hasWhere == Len(sql_query.join_conditions) > 0 \/ Len(sql_query.where_conditions) > 0
        wc == WhereConvert(sql_query.join_conditions, sql_query.where_conditions,
                           sel.triple_patterns,
                           [subject_vars |-> inst.where_subject_vars,
                            triple_patterns |-> <<>>,
                            filter_conditions |-> inst.where_filter_conditions])
        patterns1 == IF hasWhere THEN ExtendNew(sel.triple_patterns, wc.patterns)
                     ELSE sel.triple_patterns
        hasGroup == Len(sql_query.group_by) > 0
        gb == ConvertGroupBy(sql_query.group_by, patterns1, sel.sparql_vars,
                             sel.triple_patterns, inst.group_subject_vars)
        patterns2 == IF hasGroup THEN ExtendNew(patterns1, gb.additional_patterns) ELSE patterns1
        group_sv == IF hasGroup THEN gb.subject_vars ELSE inst.group_subject_vars
        hasHaving == Len(sql_query.having) > 0
        hv == ConvertHaving(sql_query.having, patterns2, sel.sparql_vars,
                            sel.triple_patterns, group_sv)
        var_name == FindVariableForAttribute(sel.sparql_vars)
    IN  [sparql |-> [EmptySparql EXCEPT
             !.select_vars = sel.sparql_vars,
             !.where_patterns = patterns2,
             !.filter_conditions = IF hasWhere THEN wc.filters ELSE <<>>,
             !.group_by_vars = IF hasGroup THEN gb.group_vars ELSE <<>>,
             !.having_conditions = IF hasHaving THEN hv.having_exprs ELSE <<>>,
             !.order_by_vars = IF var_name = <<>> THEN <<>>
                               ELSE [i \in 1..Len(sql_query.order_by) |->
                                       <<var_name[1], sql_query.order_by[i][2]>>],
             !.limit = sql_query.limit,
             !.offset = sql_query.offset],
         inst |-> [inst EXCEPT
             !.where_subject_vars = IF hasWhere THEN wc.fields.subject_vars ELSE @,
             !.where_filter_conditions = IF hasWhere THEN wc.fields.filter_conditions ELSE @,
             !.group_subject_vars = IF hasHaving THEN hv.subject_vars ELSE group_sv]]

\* _convert_insert_query and _convert_delete_query
ConvertInsertQueryDef(sql_query, entity_id) ==
    [EmptySparql EXCEPT
        !.insert_triples = IF sql_query.insert_table # <<>>
                           THEN ConvertInsert(sql_query.insert_table[1],
                                              sql_query.insert_values, entity_id)
                           ELSE <<>>]
ConvertDeleteQueryDef(sql_query) ==
    LET d == ConvertDelete(sql_query.delete_table[1], sql_query.where_conditions)
    IN  IF sql_query.delete_table = <<>> THEN EmptySparql
        ELSE [EmptySparql EXCEPT !.delete_patterns = d.delete_patterns,
                                 !.where_patterns = d.where_patterns,
                                 !.filter_conditions = d.filter_conditions]

\* what a conversion gives: whether it returned, the path it took, the text
\* returned (the exception's type if it raised), and the select variables,
\* triple patterns and filters of the query it built
OutcomeDef(ok, path, text, select_vars, patterns, filters) ==
    [ok |-> ok, path |-> path, text |-> text, select_vars |-> select_vars,
     patterns |-> patterns, filters |-> filters]

\* the standard path of convert: parse, _convert_query, to_string
StandardConvertDef(sql_query, inst, entity_id) ==
    LET p == Parse(sql_query)
        q == p.query
        s == ConvertSelectQuery(q, inst)
        sparql == IF q.type = kSELECT THEN s.sparql
                  ELSE IF q.type = kINSERT THEN ConvertInsertQuery(q, entity_id)
                  ELSE ConvertDeleteQuery(q)
    IN  IF ~p.ok
        THEN [out |-> Outcome(FALSE, "standard", p.error, <<>>, <<>>, <<>>), inst |-> inst]
        ELSE [out |-> Outcome(TRUE, "standard", QueryToString(sparql), sparql.select_vars,
                              [i \in 1..Len(sparql.where_patterns) |->
                                 ToSparqlPattern(sparql.where_patterns[i])],
                              sparql.filter_conditions),
              inst |-> IF q.type = kSELECT THEN s.inst ELSE inst]

\* the expression path of convert
ExpressionConvertDef(sql_query, inst) ==
    LET r == ConvertWithExpressions(sql_query, inst.current_from_table)
    IN  [out |-> Outcome(r.ok, "expressions", r.text, r.select_vars, r.patterns, r.filters),
         inst |-> [inst EXCEPT !.var_mappings = r.var_mappings,
                               !.current_from_table = r.current_from_table]]

\* the test of convert for the expression path
NeedsEnhancedDef(sql_query) ==
    LET up == Upper(sql_query)
        f == Find(up, kFROM)
        w == Find(up, kWHERE)
        select_part == IF f = 0 THEN up ELSE Slice(up, 1, f - 1)
        w2 == FindFrom(up, kWHERE, w + Len(kWHERE))
        where_part == IF w = 0 THEN <<>>
                      ELSE Slice(up, w + Len(kWHERE), IF w2 = 0 THEN Len(up) ELSE w2 - 1)
    IN  /\ \/ \E c \in {"*", "/", "+", "-"} : Contains(select_part, <<c>>)
           \/ Contains(where_part, kBETWEEN)
           \/ Contains(where_part, <<"I", "N", " ", "(">>)
           \/ Contains(where_part, <<" ", "O", "R", " ">>)
        /\ Contains(up, kSELECT)

-----------------------------------------------------------------------------
(* SQL2SPARQLConverter: convert and _handle_union_query                     *)

lUnionLine == <<" "," ","U","N","I","O","N">>
lOrderByVar == <<"O","R","D","E","R"," ","B","Y"," ","?">>
lBlockOpen == <<" "," ","{"," ">>

\* re.search(r'\s+ORDER\s+BY\s+(.*?)(?:\s+LIMIT|\s*$)', s, re.IGNORECASE):
\* where the match that begins at i puts the start and the end of group 1
OrderByGroupDef(s, i) ==
    LET r == SkipIn(s, SpaceChars, i)
        r2 == SkipIn(s, SpaceChars, r + Len(kORDER))
        a == SkipIn(s, SpaceChars, r2 + Len(kBY))
        ends(e) == \/ e <= Len(s) /\ s[e] \in SpaceChars
                      /\ StartsAtI(s, kLIMIT, SkipIn(s, SpaceChars, e))
                   \/ SkipIn(s, SpaceChars, e) > Len(s)
        e == FirstAt(a, LineEnd(s, a), ends)
    IN  IF /\ i <= Len(s) /\ s[i] \in SpaceChars
           /\ StartsAtI(s, kORDER, r)
           /\ r2 > r + Len(kORDER) /\ StartsAtI(s, kBY, r2)
           /\ a > r2 + Len(kBY)
           /\ e # 0
        THEN <<a, e>> ELSE <<>>

\* re.search(r'\s+LIMIT\s+(\d+)', s, re.IGNORECASE): where the match that
\* begins at i puts the start and the end of group 1
LimitGroupDef(s, i) ==
    LET r == SkipIn(s, SpaceChars, i)
        d == SkipIn(s, SpaceChars, r + Len(kLIMIT))
        e == SkipIn(s, DigitSet, d)
    IN  IF /\ i <= Len(s) /\ s[i] \in SpaceChars
           /\ StartsAtI(s, kLIMIT, r)
           /\ d > r + Len(kLIMIT) /\ e > d
        THEN <<d, e>> ELSE <<>>

\* the match of \s+UNION(?:\s+ALL)?\s+ (ignoring case) that begins at i:
\* the position after it, 0 if there is none
UnionSepEndDef(s, i) ==
    LET r == SkipIn(s, SpaceChars, i)
        u == r + Len(kUNION)
        a == SkipIn(s, SpaceChars, u)
        b == SkipIn(s, SpaceChars, a + Len(kALL))
    IN  IF ~(i <= Len(s) /\ s[i] \in SpaceChars /\ StartsAtI(s, kUNION, r) /\ a > u) THEN 0
        ELSE IF StartsAtI(s, kALL, a) /\ b > a + Len(kALL) THEN b
        ELSE a

\* re.split(r'\s+UNION(?:\s+ALL)?\s+', s, flags=re.IGNORECASE)
RECURSIVE SplitUnionFromDef(_, _)
SplitUnionFromDef(s, start) ==
    LET i == FirstAt(start, Len(s), LAMBDA k : UnionSepEnd(s, k) # 0)
    IN  IF i = 0 THEN <<Slice(s, start, Len(s))>>
        ELSE <<Slice(s, start, i - 1)>> \o SplitUnionFromDef(s, UnionSepEnd(s, i))

\* a branch of the query: stripped, and without the parentheses around it
UnionPartDef(part) ==
    LET p == Strip(part)
    IN  IF StartsWith(p, <<"(">>) /\ EndsWith(p, <<")">>)
        THEN Strip(Slice(p, 2, Len(p) - 1)) ELSE p

\* re.search(r'WHERE \{(.*?)\}', sub_sparql, re.DOTALL): group 1 in a sequence
WhereContentDef(sub_sparql) ==
    LET w == Find(sub_sparql, lWhereOpen)
        c == FindFrom(sub_sparql, <<"}">>, w + Len(lWhereOpen))
    IN  IF w = 0 \/ c = 0 THEN <<>>
        ELSE <<Slice(sub_sparql, w + Len(lWhereOpen), c - 1)>>

\* re.search(r'SELECT (.*)WHERE', sub_sparql, re.DOTALL): group 1 in a sequence
SelectContentDef(sub_sparql) ==
    LET s == Find(sub_sparql, lSelectSp)
        w == LastAt(s + Len(lSelectSp), Len(sub_sparql),
                    LAMBDA k : StartsAt(sub_sparql, kWHERE, k))
    IN  IF s = 0 \/ w = 0 THEN <<>>
        ELSE <<Slice(sub_sparql, s + Len(lSelectSp), w - 1)>>

\* _handle_union_query without its lines for ORDER BY and LIMIT
UnionNoTrailingLines(sql_query, oi, li) == <<>>

\* the lines that _handle_union_query adds after the closing brace: ORDER BY
\* if the search at oi found one, LIMIT if the search at li found one
UnionTrailingLinesDef(sql_query, oi, li) ==
    LET og == OrderByGroup(sql_query, oi)
        lg == LimitGroup(sql_query, li)
        order_clause == Strip(Slice(sql_query, og[1], og[2] - 1))
        order_var == Strip(Replace(Replace(Lower(order_clause), lSpdesc, <<>>), lSpasc, <<>>))
    IN  (IF oi # 0 THEN <<lOrderByVar \o order_var>> ELSE <<>>)
        \o (IF li # 0 THEN <<lLimitSp \o Slice(sql_query, lg[1], lg[2] - 1)>> ELSE <<>>)

\* the lines of _handle_union_query for branch i, written with UNION ALL
UnionLinesWithAll(i, sub_sparql) ==
    LET where_content == WhereContent(sub_sparql)
        select_content == SelectContent(sub_sparql)
        block == lBlockOpen \o Strip(where_content[1]) \o <<" ", "}">>
    IN  IF where_content = <<>> THEN <<>>
        ELSE IF i > 1 THEN <<lUnionLine \o <<" ">> \o kALL, block>>
        ELSE (IF select_content = <<>> THEN <<>>
              ELSE <<lSelectSp \o Strip(select_content[1])>>)
             \o <<lWhereOpen, block>>

\* the lines that _handle_union_query adds for branch i, converted to sub_sparql
UnionLinesDef(i, sub_sparql) ==
    LET where_content == WhereContent(sub_sparql)
        select_content == SelectContent(sub_sparql)
        block == lBlockOpen \o Strip(where_content[1]) \o <<" ", "}">>
    IN  IF where_content = <<>> THEN <<>>
        ELSE IF i > 1 THEN <<lUnionLine, block>>
        ELSE (IF select_content = <<>> THEN <<>>
              ELSE <<lSelectSp \o Strip(select_content[1])>>)
             \o <<lWhereOpen, block>>

\* the loop of _handle_union_query over the branches from i on; st holds the
\* lines so far, the fields of the converter and the outcomes of the branches
RECURSIVE UnionBranchesDef(_, _, _, _)
UnionBranchesDef(parts, i, st, entity_id) ==
    LET r == Convert(UnionPart(parts[i]), st.inst, entity_id)
    IN  IF i > Len(parts) \/ ~st.ok THEN st
        ELSE UnionBranchesDef(parts, i + 1,
                 [ok |-> r.out.ok,
                  error |-> r.out.text,
                  lines |-> IF r.out.ok THEN st.lines \o UnionLines(i, r.out.text) ELSE st.lines,
                  inst |-> r.inst,
                  select_vars |-> IF i = 1 THEN r.out.select_vars ELSE st.select_vars,
                  patterns |-> st.patterns \o r.out.patterns,
                  filters |-> st.filters \o r.out.filters],
                 entity_id)

\* _handle_union_query; a branch that is the whole text again makes the
\* calls of convert nest without end
HandleUnionQueryDef(sql_query, inst, entity_id) ==
    LET oi == FirstAt(1, Len(sql_query), LAMBDA k : OrderByGroup(sql_query, k) # <<>>)
        li == FirstAt(1, Len(sql_query), LAMBDA k : LimitGroup(sql_query, k) # <<>>)
        clean_query == IF oi # 0 THEN Slice(sql_query, 1, oi - 1)
                       ELSE IF li # 0 THEN Slice(sql_query, 1, li - 1)
                       ELSE sql_query
        parts == SplitUnionFrom(clean_query, 1)
        loops == \E i \in 1..Len(parts) : UnionPart(parts[i]) = sql_query
        st == UnionBranches(parts, 1,
                  [ok |-> TRUE, error |-> <<>>, lines |-> <<>>, inst |-> inst,
                   select_vars |-> <<>>, patterns |-> <<>>, filters |-> <<>>],
                  entity_id)
        sparql_parts == st.lines \o <<<<"}">>>> \o UnionTrailingLines(sql_query, oi, li)
    IN  IF loops
        THEN [out |-> Outcome(FALSE, "union", "RecursionError", <<>>, <<>>, <<>>), inst |-> inst]
        ELSE IF ~st.ok
        THEN [out |-> Outcome(FALSE, "union", st.error, <<>>, <<>>, <<>>), inst |-> st.inst]
        ELSE [out |-> Outcome(TRUE, "union", Join(sparql_parts, <<"\n">>), st.select_vars,
                              st.patterns, st.filters),
              inst |-> st.inst]

\* convert: the outcome and the fields of the converter after the call
ConvertDef(sql_query, inst, entity_id) ==
    IF Contains(Upper(sql_query), kUNION) THEN HandleUnionQuery(sql_query, inst, entity_id)
    ELSE IF NeedsEnhanced(sql_query) THEN ExpressionConvert(sql_query, inst)
    ELSE StandardConvert(sql_query, inst, entity_id)

-----------------------------------------------------------------------------
(* SchemaMapper: the relational schema of an RDF graph.  The graph is the   *)
(* sequence of its triples in the order in which iteration visits them.     *)

\* http://www.w3.org/1999/02/22-rdf-syntax-ns#type
kRdfTypeUri ==
    <<"h","t","t","p",":","/","/","w","w","w",".","w","3",".","o","r","g","/","1","9","9","9",
      "/","0","2","/","2","2","-","r","d","f","-","s","y","n","t","a","x","-","n","s","#","t",
      "y","p","e">>
\* http://www.w3.org/2002/07/owl#Thing
kOwlThing ==
    <<"h","t","t","p",":","/","/","w","w","w",".","w","3",".","o","r","g","/","2","0","0","2",
      "/","0","7","/","o","w","l","#","T","h","i","n","g">>
\* http://a.org/Person
uPersonA ==
    <<"h","t","t","p",":","/","/","a",".","o","r","g","/","P","e","r","s","o","n">>
\* http://b.org#Person
uPersonB ==
    <<"h","t","t","p",":","/","/","b",".","o","r","g","#","P","e","r","s","o","n">>
\* http://a.org/Book
uBook ==
    <<"h","t","t","p",":","/","/","a",".","o","r","g","/","B","o","o","k">>
\* http://a.org/name
uName ==
    <<"h","t","t","p",":","/","/","a",".","o","r","g","/","n","a","m","e">>
\* http://b.org#age
uAge ==
    <<"h","t","t","p",":","/","/","b",".","o","r","g","#","a","g","e">>
\* http://a.org/alice
uAlice ==
    <<"h","t","t","p",":","/","/","a",".","o","r","g","/","a","l","i","c","e">>
\* http://a.org/bob
uBob ==
    <<"h","t","t","p",":","/","/","a",".","o","r","g","/","b","o","b">>

\* _get_table_name and _get_attribute_name, which are the same
GetTableNameDef(rdf_type) ==
    IF Contains(rdf_type, <<"#">>)
    THEN LET parts == SplitOn(rdf_type, <<"#">>) IN Lower(parts[Len(parts)])
    ELSE IF Contains(rdf_type, <<"/">>)
    THEN LET parts == SplitOn(rdf_type, <<"/">>) IN Lower(parts[Len(parts)])
    ELSE Lower(rdf_type)
GetAttributeNameDef(predicate) == GetTableName(predicate)

\* _get_subject_types
GetSubjectTypesDef(graph, subject) ==
    LET found == SelectSeq(graph, LAMBDA t : t.subject = subject /\ t.predicate = kRdfTypeUri)
    IN  IF Len(found) > 0 THEN [i \in 1..Len(found) |-> found[i].object] ELSE <<kOwlThing>>

\* the loop of _extract_type_predicates over the types of a subject
RECURSIVE AddPredicateDef(_, _, _, _)
AddPredicateDef(type_predicates, subject_types, i, pred_name) ==
    IF i > Len(subject_types) THEN type_predicates
    ELSE AddPredicateDef(DictSet(type_predicates, subject_types[i],
                              DictGet(type_predicates, subject_types[i], {}) \cup {pred_name}),
                      subject_types, i + 1, pred_name)

\* _extract_type_predicates, from the i-th triple on
RECURSIVE TypePredicatesFromDef(_, _, _)
TypePredicatesFromDef(graph, i, type_predicates) ==
    IF i > Len(graph) THEN type_predicates
    ELSE IF graph[i].predicate = kRdfTypeUri
    THEN TypePredicatesFromDef(graph, i + 1,
             IF DictHas(type_predicates, graph[i].object) THEN type_predicates
             ELSE DictSet(type_predicates, graph[i].object, {}))
    ELSE TypePredicatesFromDef(graph, i + 1,
             AddPredicate(type_predicates, GetSubjectTypes(graph, graph[i].subject), 1,
                          GetAttributeName(graph[i].predicate)))

ExtractTypePredicatesDef(graph) == TypePredicatesFrom(graph, 1, <<>>)

\* list(predicates): the members of the set, in an order that the set gives
ListsOfDef(predicates) ==
    {s \in [1..Cardinality(predicates) -> predicates] :
        \A a, b \in 1..Cardinality(predicates) : a # b => s[a] # s[b]}

\* RelationalSchema.add_table
AddTableDef(tables, table_name, attributes) == DictSet(tables, table_name, <<kSubject>> \o attributes)

\* the loop of extract_schema from the i-th type on: the schemas it can end
\* with
RECURSIVE AddTablesFromDef(_, _, _)
AddTablesFromDef(type_predicates, i, tables) ==
    IF i > Len(type_predicates) THEN {tables}
    ELSE UNION {AddTablesFromDef(type_predicates, i + 1,
                              AddTable(tables, GetTableName(type_predicates[i][1]), attributes)) :
                   attributes \in ListsOf(type_predicates[i][2])}

\* extract_schema on a new mapper: the schemas it can return
ExtractSchemaDef(graph) == AddTablesFrom(ExtractTypePredicates(graph), 1, <<>>)

-----------------------------------------------------------------------------
(* Call: the definition that each of the operators above applies           *)

Call(name, a) ==
    CASE name = "" -> <<>>
      [] name = "ToUpperC" -> ToUpperCDef(a[1])
      [] name = "ToLowerC" -> ToLowerCDef(a[1])
      [] name = "Upper" -> UpperDef(a[1])
      [] name = "Lower" -> LowerDef(a[1])
      [] name = "Title" -> TitleDef(a[1])
      [] name = "Slice" -> SliceDef(a[1], a[2], a[3])
      [] name = "From" -> FromDef(a[1], a[2])
      [] name = "Str" -> StrDef(a[1])
      [] name = "MinOf" -> MinOfDef(a[1])
      [] name = "MaxOf" -> MaxOfDef(a[1])
      [] name = "StartsAt" -> StartsAtDef(a[1], a[2], a[3])
      [] name = "StartsAtI" -> StartsAtIDef(a[1], a[2], a[3])
      [] name = "StartsWith" -> StartsWithDef(a[1], a[2])
      [] name = "EndsWith" -> EndsWithDef(a[1], a[2])
      [] name = "FindFrom" -> FindFromDef(a[1], a[2], a[3])
      [] name = "Find" -> FindDef(a[1], a[2])
      [] name = "Contains" -> ContainsDef(a[1], a[2])
      [] name = "SkipIn" -> SkipInDef(a[1], a[2], a[3])
      [] name = "SkipNotIn" -> SkipNotInDef(a[1], a[2], a[3])
      [] name = "SkipBackIn" -> SkipBackInDef(a[1], a[2], a[3])
      [] name = "StripSet" -> StripSetDef(a[1], a[2])
      [] name = "LStripSet" -> LStripSetDef(a[1], a[2])
      [] name = "RStripSet" -> RStripSetDef(a[1], a[2])
      [] name = "Strip" -> StripDef(a[1])
      [] name = "SplitOn" -> SplitOnDef(a[1], a[2])
      [] name = "SplitWs" -> SplitWsDef(a[1])
      [] name = "Replace" -> ReplaceDef(a[1], a[2], a[3])
      [] name = "Join" -> JoinDef(a[1], a[2])
      [] name = "IsDigits" -> IsDigitsDef(a[1])
      [] name = "NatText" -> NatTextDef(a[1])
      [] name = "DigitPartEnd" -> DigitPartEndDef(a[1], a[2])
      [] name = "FloatBody" -> FloatBodyDef(a[1])
      [] name = "IsFloat" -> IsFloatDef(a[1])
      [] name = "DictHas" -> DictHasDef(a[1], a[2])
      [] name = "DictGet" -> DictGetDef(a[1], a[2], a[3])
      [] name = "DictSet" -> DictSetDef(a[1], a[2], a[3])
      [] name = "InSeq" -> InSeqDef(a[1], a[2])
      [] name = "AppendNew" -> AppendNewDef(a[1], a[2])
      [] name = "FindKwWs" -> FindKwWsDef(a[1], a[2], a[3])
      [] name = "FindAnyI" -> FindAnyIDef(a[1], a[2], a[3])
      [] name = "ExtractClause" -> ExtractClauseDef(a[1], a[2], a[3], a[4])
      [] name = "KwSepEnd" -> KwSepEndDef(a[1], a[2], a[3])
      [] name = "ReSplitKwFrom" -> ReSplitKwFromDef(a[1], a[2], a[3])
      [] name = "ReSplitKw" -> ReSplitKwDef(a[1], a[2])
      [] name = "ParenDepth" -> ParenDepthDef(a[1], a[2])
      [] name = "SplitParensFrom" -> SplitParensFromDef(a[1], a[2], a[3])
      [] name = "SplitRespectingParens" -> SplitRespectingParensDef(a[1], a[2])
      [] name = "FindOpAt" -> FindOpAtDef(a[1], a[2])
      [] name = "IsDecimalText" -> IsDecimalTextDef(a[1])
      [] name = "FuncMatch" -> FuncMatchDef(a[1])
      [] name = "ParseExpression" -> ParseExpressionDef(a[1])
      [] name = "SuffixVar" -> SuffixVarDef(a[1], a[2], a[3])
      [] name = "ToSparqlExpression" -> ToSparqlExpressionDef(a[1], a[2])
      [] name = "ReplaceDecimals" -> ReplaceDecimalsDef(a[1], a[2])
      [] name = "DottedWords" -> DottedWordsDef(a[1], a[2])
      [] name = "Words" -> WordsDef(a[1], a[2])
      [] name = "AddSimpleColumns" -> AddSimpleColumnsDef(a[1], a[2])
      [] name = "ExtractColumnsFromExpr" -> ExtractColumnsFromExprDef(a[1])
      [] name = "CreateTriplePattern" -> CreateTriplePatternDef(a[1], a[2], a[3])
      [] name = "FromTableOf" -> FromTableOfDef(a[1])
      [] name = "ColumnVar" -> ColumnVarDef(a[1])
      [] name = "ColumnPattern" -> ColumnPatternDef(a[1], a[2], a[3])
      [] name = "UnpackFails" -> UnpackFailsDef(a[1])
      [] name = "MapCalcColumns" -> MapCalcColumnsDef(a[1], a[2], a[3], a[4])
      [] name = "ProcessCalculatedColumn" -> ProcessCalculatedColumnDef(a[1], a[2], a[3], a[4])
      [] name = "FindLastIn" -> FindLastInDef(a[1], a[2], a[3], a[4])
      [] name = "LineEnd" -> LineEndDef(a[1], a[2])
      [] name = "AliasAfterAs" -> AliasAfterAsDef(a[1], a[2])
      [] name = "ProcessAggregateFunction" -> ProcessAggregateFunctionDef(a[1], a[2], a[3], a[4])
      [] name = "ProcessRegularColumn" -> ProcessRegularColumnDef(a[1], a[2], a[3], a[4])
      [] name = "IsCalculatedExpression" -> IsCalculatedExpressionDef(a[1])
      [] name = "IsAggregateFunction" -> IsAggregateFunctionDef(a[1])
      [] name = "Min" -> MinDef(a[1], a[2])
      [] name = "PyPrefix" -> PyPrefixDef(a[1], a[2])
      [] name = "PySuffix" -> PySuffixDef(a[1], a[2])
      [] name = "BetweenMatchAt" -> BetweenMatchAtDef(a[1], a[2])
      [] name = "BetweenMatches" -> BetweenMatchesDef(a[1], a[2])
      [] name = "RemoveMatches" -> RemoveMatchesDef(a[1], a[2])
      [] name = "VarFor" -> VarForDef(a[1], a[2])
      [] name = "FormatFilterValue" -> FormatFilterValueDef(a[1])
      [] name = "CalcTailAt" -> CalcTailAtDef(a[1], a[2])
      [] name = "ColumnEnds" -> ColumnEndsDef(a[1])
      [] name = "OpsAfter" -> OpsAfterDef(a[1], a[2])
      [] name = "ComparisonMatch" -> ComparisonMatchDef(a[1])
      [] name = "CreateFilterExpression" -> CreateFilterExpressionDef(a[1], a[2])
      [] name = "PartFilter" -> PartFilterDef(a[1], a[2])
      [] name = "PartFilters" -> PartFiltersDef(a[1], a[2])
      [] name = "ProcessComplexWhere" -> ProcessComplexWhereDef(a[1], a[2])
      [] name = "ProcessGroupBy" -> ProcessGroupByDef(a[1], a[2])
      [] name = "ProcessHaving" -> ProcessHavingDef(a[1], a[2])
      [] name = "OrderItem" -> OrderItemDef(a[1], a[2])
      [] name = "ProcessOrderBy" -> ProcessOrderByDef(a[1], a[2])
      [] name = "LimitMatch" -> LimitMatchDef(a[1])
      [] name = "ProcessSelectItems" -> ProcessSelectItemsDef(a[1], a[2], a[3], a[4], a[5])
      [] name = "Raised" -> RaisedDef(a[1], a[2], a[3], a[4])
      [] name = "ConvertWithExpressions" -> ConvertWithExpressionsDef(a[1], a[2])
      [] name = "CharAt" -> CharAtDef(a[1], a[2])
      [] name = "TwoWordEnd" -> TwoWordEndDef(a[1], a[2], a[3], a[4])
      [] name = "QuotedEnd" -> QuotedEndDef(a[1], a[2])
      [] name = "NumberEnd" -> NumberEndDef(a[1], a[2])
      [] name = "TokenEnd" -> TokenEndDef(a[1], a[2])
      [] name = "TokensFrom" -> TokensFromDef(a[1], a[2])
      [] name = "Tokens" -> TokensDef(a[1])
      [] name = "IsWhitespace" -> IsWhitespaceDef(a[1])
      [] name = "Attribute" -> AttributeDef(a[1], a[2], a[3], a[4])
      [] name = "TokUpper" -> TokUpperDef(a[1], a[2])
      [] name = "SortedPositions" -> SortedPositionsDef(a[1])
      [] name = "OrderThenBy" -> OrderThenByDef(a[1], a[2])
      [] name = "RelationAndName" -> RelationAndNameDef(a[1], a[2])
      [] name = "AggregateArgument" -> AggregateArgumentDef(a[1], a[2])
      [] name = "AddAttribute" -> AddAttributeDef(a[1])
      [] name = "TokenDepth" -> TokenDepthDef(a[1], a[2], a[3])
      [] name = "ParseSelectClause" -> ParseSelectClauseDef(a[1], a[2])
      [] name = "ParseFromClause" -> ParseFromClauseDef(a[1], a[2])
      [] name = "ConditionText" -> ConditionTextDef(a[1], a[2], a[3])
      [] name = "ConditionValue" -> ConditionValueDef(a[1])
      [] name = "JoinMatch" -> JoinMatchDef(a[1])
      [] name = "RelationalTail" -> RelationalTailDef(a[1], a[2])
      [] name = "ExprMatch" -> ExprMatchDef(a[1])
      [] name = "WordTailMatch" -> WordTailMatchDef(a[1], a[2], a[3])
      [] name = "OperatorTails" -> OperatorTailsDef(a[1], a[2])
      [] name = "CompMatch" -> CompMatchDef(a[1])
      [] name = "ParseConditions" -> ParseConditionsDef(a[1])
      [] name = "ParseWhereClause" -> ParseWhereClauseDef(a[1], a[2])
      [] name = "IsComma" -> IsCommaDef(a[1], a[2])
      [] name = "ParseGroupByClause" -> ParseGroupByClauseDef(a[1], a[2])
      [] name = "ParseHavingConditions" -> ParseHavingConditionsDef(a[1])
      [] name = "ParseHavingClause" -> ParseHavingClauseDef(a[1], a[2])
      [] name = "AddOrderByAttribute" -> AddOrderByAttributeDef(a[1], a[2])
      [] name = "OrderByStep" -> OrderByStepDef(a[1], a[2], a[3])
      [] name = "ParseOrderByClause" -> ParseOrderByClauseDef(a[1], a[2])
      [] name = "DigitsValue" -> DigitsValueDef(a[1])
      [] name = "ParseCountClause" -> ParseCountClauseDef(a[1], a[2])
      [] name = "EmptyQuery" -> EmptyQueryDef(a[1])
      [] name = "ParseSelectQuery" -> ParseSelectQueryDef(a[1], a[2], a[3])
      [] name = "ZipDict" -> ZipDictDef(a[1], a[2], a[3])
      [] name = "ParseInsertQuery" -> ParseInsertQueryDef(a[1], a[2])
      [] name = "ParseDeleteQuery" -> ParseDeleteQueryDef(a[1], a[2])
      [] name = "IsDML" -> IsDMLDef(a[1], a[2])
      [] name = "Parse" -> ParseDef(a[1])
      [] name = "Triple" -> TripleDef(a[1], a[2], a[3])
      [] name = "ToSparqlPattern" -> ToSparqlPatternDef(a[1])
      [] name = "GetPredicateUri" -> GetPredicateUriDef(a[1])
      [] name = "GetTypeUri" -> GetTypeUriDef(a[1])
      [] name = "ApplyAggregate" -> ApplyAggregateDef(a[1], a[2], a[3])
      [] name = "SelectConvert" -> SelectConvertDef(a[1])
      [] name = "WhereExtractSubjectVars" -> WhereExtractSubjectVarsDef(a[1], a[2])
      [] name = "WhereGetSubjectVar" -> WhereGetSubjectVarDef(a[1], a[2])
      [] name = "WhereBuildFilterExpression" -> WhereBuildFilterExpressionDef(a[1], a[2], a[3])
      [] name = "JoinSharedVar" -> JoinSharedVarDef(a[1])
      [] name = "ProcessJoinConditions" -> ProcessJoinConditionsDef(a[1], a[2], a[3])
      [] name = "ProcessBooleanConditions" -> ProcessBooleanConditionsDef(a[1], a[2], a[3])
      [] name = "WhereConvert" -> WhereConvertDef(a[1], a[2], a[3], a[4])
      [] name = "GroupExtractSubjectVars" -> GroupExtractSubjectVarsDef(a[1], a[2])
      [] name = "GroupGetSubjectVar" -> GroupGetSubjectVarDef(a[1], a[2])
      [] name = "GroupPatternExists" -> GroupPatternExistsDef(a[1], a[2], a[3])
      [] name = "FindObjectVar" -> FindObjectVarDef(a[1], a[2], a[3])
      [] name = "FindSelectVarForAttribute" -> FindSelectVarForAttributeDef(a[1], a[2], a[3])
      [] name = "BuildAggregateExpr" -> BuildAggregateExprDef(a[1], a[2])
      [] name = "GroupByStep" -> GroupByStepDef(a[1], a[2], a[3], a[4], a[5], a[6])
      [] name = "ConvertGroupBy" -> ConvertGroupByDef(a[1], a[2], a[3], a[4], a[5])
      [] name = "BaseVariable" -> BaseVariableDef(a[1])
      [] name = "HavingStep" -> HavingStepDef(a[1], a[2], a[3], a[4], a[5], a[6])
      [] name = "ConvertHaving" -> ConvertHavingDef(a[1], a[2], a[3], a[4], a[5])
      [] name = "FormatValue" -> FormatValueDef(a[1])
      [] name = "DeleteBuildFilterExpression" -> DeleteBuildFilterExpressionDef(a[1], a[2], a[3])
      [] name = "SubjectUri" -> SubjectUriDef(a[1], a[2])
      [] name = "ConvertInsert" -> ConvertInsertDef(a[1], a[2], a[3])
      [] name = "ConvertDelete" -> ConvertDeleteDef(a[1], a[2])
      [] name = "PatternLines" -> PatternLinesDef(a[1])
      [] name = "FilterLines" -> FilterLinesDef(a[1])
      [] name = "BuildSelectQuery" -> BuildSelectQueryDef(a[1])
      [] name = "BuildInsertQuery" -> BuildInsertQueryDef(a[1])
      [] name = "BuildDeleteQuery" -> BuildDeleteQueryDef(a[1])
      [] name = "QueryToString" -> QueryToStringDef(a[1])
      [] name = "ExtendNew" -> ExtendNewDef(a[1], a[2])
      [] name = "FindVariableForAttribute" -> FindVariableForAttributeDef(a[1])
      [] name = "ConvertSelectQuery" -> ConvertSelectQueryDef(a[1], a[2])
      [] name = "ConvertInsertQuery" -> ConvertInsertQueryDef(a[1], a[2])
      [] name = "ConvertDeleteQuery" -> ConvertDeleteQueryDef(a[1])
      [] name = "Outcome" -> OutcomeDef(a[1], a[2], a[3], a[4], a[5], a[6])
      [] name = "StandardConvert" -> StandardConvertDef(a[1], a[2], a[3])
      [] name = "ExpressionConvert" -> ExpressionConvertDef(a[1], a[2])
      [] name = "NeedsEnhanced" -> NeedsEnhancedDef(a[1])
      [] name = "OrderByGroup" -> OrderByGroupDef(a[1], a[2])
      [] name = "LimitGroup" -> LimitGroupDef(a[1], a[2])
      [] name = "UnionSepEnd" -> UnionSepEndDef(a[1], a[2])
      [] name = "SplitUnionFrom" -> SplitUnionFromDef(a[1], a[2])
      [] name = "UnionPart" -> UnionPartDef(a[1])
      [] name = "WhereContent" -> WhereContentDef(a[1])
      [] name = "SelectContent" -> SelectContentDef(a[1])
      [] name = "UnionTrailingLines" -> UnionTrailingLinesDef(a[1], a[2], a[3])
      [] name = "UnionLines" -> UnionLinesDef(a[1], a[2])
      [] name = "UnionBranches" -> UnionBranchesDef(a[1], a[2], a[3], a[4])
      [] name = "HandleUnionQuery" -> HandleUnionQueryDef(a[1], a[2], a[3])
      [] name = "Convert" -> ConvertDef(a[1], a[2], a[3])
      [] name = "GetTableName" -> GetTableNameDef(a[1])
      [] name = "GetAttributeName" -> GetAttributeNameDef(a[1])
      [] name = "GetSubjectTypes" -> GetSubjectTypesDef(a[1], a[2])
      [] name = "AddPredicate" -> AddPredicateDef(a[1], a[2], a[3], a[4])
      [] name = "TypePredicatesFrom" -> TypePredicatesFromDef(a[1], a[2], a[3])
      [] name = "ExtractTypePredicates" -> ExtractTypePredicatesDef(a[1])
      [] name = "ListsOf" -> ListsOfDef(a[1])
      [] name = "AddTable" -> AddTableDef(a[1], a[2], a[3])
      [] name = "AddTablesFrom" -> AddTablesFromDef(a[1], a[2], a[3])
      [] name = "ExtractSchema" -> ExtractSchemaDef(a[1])

-----------------------------------------------------------------------------
(* One converter instance and the texts handed to it                        *)

\* SELECT name FROM client WHERE age > 30
qWhere ==
    <<"S","E","L","E","C","T"," ","n","a","m","e"," ","F","R","O","M"," ","c","l","i","e","n",
      "t"," ","W","H","E","R","E"," ","a","g","e"," ",">"," ","3","0">>
\* SELECT client.name FROM client WHERE client.age > 30
qQualified ==
    <<"S","E","L","E","C","T"," ","c","l","i","e","n","t",".","n","a","m","e"," ","F","R","O",
      "M"," ","c","l","i","e","n","t"," ","W","H","E","R","E"," ","c","l","i","e","n","t",".",
      "a","g","e"," ",">"," ","3","0">>
\* SELECT a.name, b.title FROM a, b WHERE a.id = b.aid
qJoin ==
    <<"S","E","L","E","C","T"," ","a",".","n","a","m","e",","," ","b",".","t","i","t","l","e",
      " ","F","R","O","M"," ","a",","," ","b"," ","W","H","E","R","E"," ","a",".","i","d"," ",
      "="," ","b",".","a","i","d">>
\* SELECT city, COUNT(name) AS n FROM client GROUP BY city HAVING COUNT(name) > 5
qGroup ==
    <<"S","E","L","E","C","T"," ","c","i","t","y",","," ","C","O","U","N","T","(","n","a","m",
      "e",")"," ","A","S"," ","n"," ","F","R","O","M"," ","c","l","i","e","n","t"," ","G","R",
      "O","U","P"," ","B","Y"," ","c","i","t","y"," ","H","A","V","I","N","G"," ","C","O","U",
      "N","T","(","n","a","m","e",")"," ",">"," ","5">>
\* SELECT name FROM product WHERE price BETWEEN 50 AND 300
qBetween ==
    <<"S","E","L","E","C","T"," ","n","a","m","e"," ","F","R","O","M"," ","p","r","o","d","u",
      "c","t"," ","W","H","E","R","E"," ","p","r","i","c","e"," ","B","E","T","W","E","E","N",
      " ","5","0"," ","A","N","D"," ","3","0","0">>
\* INSERT INTO client (name, age) VALUES ('John', 30)
qInsert ==
    <<"I","N","S","E","R","T"," ","I","N","T","O"," ","c","l","i","e","n","t"," ","(","n","a",
      "m","e",","," ","a","g","e",")"," ","V","A","L","U","E","S"," ","(","'","J","o","h","n",
      "'",","," ","3","0",")">>
\* DELETE FROM client WHERE name = 'John'
qDelete ==
    <<"D","E","L","E","T","E"," ","F","R","O","M"," ","c","l","i","e","n","t"," ","W","H","E",
      "R","E"," ","n","a","m","e"," ","="," ","'","J","o","h","n","'">>
\* SELECT name FROM a WHERE x > 1 UNION SELECT title FROM b WHERE y = 2
qUnion ==
    <<"S","E","L","E","C","T"," ","n","a","m","e"," ","F","R","O","M"," ","a"," ","W","H","E",
      "R","E"," ","x"," ",">"," ","1"," ","U","N","I","O","N"," ","S","E","L","E","C","T"," ",
      "t","i","t","l","e"," ","F","R","O","M"," ","b"," ","W","H","E","R","E"," ","y"," ","=",
      " ","2">>
\* SELECT name FROM client
qPlain ==
    <<"S","E","L","E","C","T"," ","n","a","m","e"," ","F","R","O","M"," ","c","l","i","e","n",
      "t">>
\* UPDATE client SET age = 31
qUpdate ==
    <<"U","P","D","A","T","E"," ","c","l","i","e","n","t"," ","S","E","T"," ","a","g","e"," ",
      "="," ","3","1">>

\* the texts a caller hands to convert
Queries == {qWhere, qQualified, qJoin, qGroup, qBetween, qInsert, qDelete, qUnion, qPlain,
            qUpdate}

\* a call of convert with the identifier uuid4 gives during it; only the
\* conversion of an INSERT draws one
NoId == <<>>
Inputs == ((Queries \ {qInsert}) \X {NoId}) \cup ({qInsert} \X EntityIds)

\* how many calls of convert one instance gets
MaxCalls == 2

\* before the first call there is no text and no outcome
NoOutcome ==
    [ok |-> FALSE, path |-> "none", text |-> "none", select_vars |-> <<>>,
     patterns |-> <<>>, filters |-> <<>>]
NoCall == [input |-> <<>>, out |-> NoOutcome]

\* SQL2SPARQLConverter.__init__: the instance and its sub-converters are new
Init ==
    /\ converter = NewConverter
    /\ input = NoCall.input
    /\ out = NoCall.out
    /\ prev = NoCall
    /\ calls = 0

\* one call converter.convert(sql_query) on the instance
DoConvert ==
    /\ calls < MaxCalls
    /\ \E in \in Inputs :
          \E r \in {Convert(in[1], converter, in[2])} :
              /\ converter' = r.inst
              /\ input' = in[1]
              /\ out' = r.out
    /\ prev' = [input |-> input, out |-> out]
    /\ calls' = calls + 1

Next == DoConvert

Spec == Init /\ [][Next]_vars

-----------------------------------------------------------------------------
(* What the claims speak of                                                 *)

\* two outcomes are the same text, or the same failure
SameOutcome(x, y) == x.ok = y.ok /\ x.text = y.text

\* the statement that the standard path parses from a text
Parsed(sql_query) == Parse(sql_query).query

\* the text is a statement of this kind: its first word is the keyword
IsStatement(sql_query, keyword) == StartsAtI(Strip(sql_query), keyword, 1)

\* what a newly constructed converter returns for the text
FreshOutcome(sql_query) == Convert(sql_query, NewConverter, NoId).out

\* the last call converted a SELECT on the standard path
ConvertedStandardSelect ==
    /\ calls > 0 /\ out.ok /\ out.path = "standard"
    /\ Parsed(input).type = kSELECT



-----------------------------------------------------------------------------
(* Claims about one instance that converts several texts                    *)

C2_NoLeakBetweenConversions ==
    (calls > 0 /\ (IsStatement(input, kSELECT) \/ IsStatement(input, kDELETE)))
        => SameOutcome(out, FreshOutcome(input))

\* the subject variables that the projection step gives relation R
ProjectionSubjects(sql_query, R) ==
    LET attributes == sql_query.select_attributes
        sel == SelectConvert(attributes)
    IN  {sel.triple_patterns[i].subject :
            i \in {k \in 1..Len(attributes) : attributes[k].relation = R}}

\* the output has the property triple of the attribute with this subject
HasPropertyTriple(subject_var, attr) ==
    \E i \in 1..Len(out.patterns) :
        StartsWith(out.patterns[i],
                   subject_var \o <<" ">> \o GetPredicateUri(attr.name) \o <<" ">>)

\* the non-subject attributes that the join, value-filter and grouping steps
\* of the statement handle
ConstrainedAttributes(sql_query) ==
    LET seq == [i \in 1..Len(sql_query.where_conditions) |->
                   sql_query.where_conditions[i].attribute]
               \o [i \in 1..Len(sql_query.join_conditions) |->
                   sql_query.join_conditions[i].left_operand]
               \o [i \in 1..Len(sql_query.join_conditions) |->
                   sql_query.join_conditions[i].right_operand]
               \o sql_query.group_by
    IN  {seq[i] : i \in {k \in 1..Len(seq) : Lower(seq[k].name) # kSubject}}

\* C3: in the conversion of a SELECT on the standard path, the triple of an
\* attribute that the join, value-filter or grouping step handles has the
\* subject variable that the projection step gave the attribute's relation
C3_OneSubjectVariablePerRelation ==
    ConvertedStandardSelect =>
        \A attr \in ConstrainedAttributes(Parsed(input)) :
            \A subject_var \in ProjectionSubjects(Parsed(input), attr.relation) :
                HasPropertyTriple(subject_var, attr)



-----------------------------------------------------------------------------
(* A new converter and one SELECT, put together from projected attributes   *)

\* name
aName ==
    <<"n","a","m","e">>
\* client.age
aQualified ==
    <<"c","l","i","e","n","t",".","a","g","e">>
\* subject
aSubject ==
    <<"s","u","b","j","e","c","t">>
\* COUNT(x)
aCount ==
    <<"C","O","U","N","T","(","x",")">>
\* price * 2
aCalc ==
    <<"p","r","i","c","e"," ","*"," ","2">>
\* valid_from
aValidFrom ==
    <<"v","a","l","i","d","_","f","r","o","m">>
\*  FROM client
lFromClient ==
    <<" ","F","R","O","M"," ","c","l","i","e","n","t">>
\*  WHERE x > 1
wCompare ==
    <<" ","W","H","E","R","E"," ","x"," ",">"," ","1">>
\*  WHERE x BETWEEN 1 AND 2
wBetween ==
    <<" ","W","H","E","R","E"," ","x"," ","B","E","T","W","E","E","N"," ","1"," ","A","N","D",
      " ","2">>

\* the projected attributes a text is made of, each with its kind
ProjectedAttributes ==
    {[text |-> aName, kind |-> "plain"], [text |-> aQualified, kind |-> "plain"],
     [text |-> aSubject, kind |-> "subject"], [text |-> aCount, kind |-> "aggregate"],
     [text |-> aCalc, kind |-> "calculated"], [text |-> aValidFrom, kind |-> "plain"]}

\* what follows the FROM clause
WhereSuffixes == {<<>>, wCompare, wBetween}

\* how many attributes a SELECT projects
MaxAttrs == 2

AttributeLists == UNION {[1..n -> ProjectedAttributes] : n \in 1..MaxAttrs}

\* SELECT a1, ..., aN FROM client and the suffix
SelectText(attributes, suffix) ==
    lSelectSp \o Join([i \in 1..Len(attributes) |-> attributes[i].text], lCommaSp)
    \o lFromClient \o suffix

\* one call convert(sql_query) on a new instance
DoConvertSelect ==
    /\ calls = 0
    /\ \E attributes \in AttributeLists, suffix \in WhereSuffixes :
          \E r \in {Convert(SelectText(attributes, suffix), converter, NoId)} :
              /\ converter' = r.inst
              /\ input' = [text |-> SelectText(attributes, suffix), attributes |-> attributes]
              /\ out' = r.out
    /\ prev' = [input |-> input, out |-> out]
    /\ calls' = calls + 1

NextSelect == DoConvertSelect

SpecSelect == Init /\ [][NextSelect]_vars

\* the text is one variable
IsVariable(item) ==
    /\ Len(item) > 1 /\ item[1] = "?"
    /\ SkipIn(item, WordChars, 2) > Len(item)

\* the projection item has the shape that the attribute's kind asks for
DerivedFrom(item, attribute) ==
    CASE attribute.kind = "aggregate" -> StartsWith(item, lCountOpen)
      [] attribute.kind = "calculated" -> Contains(item, <<"*">>)
      [] OTHER -> IsVariable(item)

\* C4: the SELECT clause of the output of a SELECT with N projected
\* attributes has N items, the i-th of the shape of the i-th attribute
C4_ProjectionShape ==
    (calls > 0 /\ out.ok) =>
        /\ Len(out.select_vars) = Len(input.attributes)
        /\ \A i \in 1..Len(input.attributes) :
               DerivedFrom(out.select_vars[i], input.attributes[i])

-----------------------------------------------------------------------------
(* A new converter and one SELECT, put together from the conditions of its  *)
(* WHERE clause                                                             *)

\* a BETWEEN 1 AND 2
condBetweenA ==
    <<"a"," ","B","E","T","W","E","E","N"," ","1"," ","A","N","D"," ","2">>
\* b BETWEEN 3 AND 4
condBetweenB ==
    <<"b"," ","B","E","T","W","E","E","N"," ","3"," ","A","N","D"," ","4">>
\* total_amount > 5
condGreater ==
    <<"t","o","t","a","l","_","a","m","o","u","n","t"," ",">"," ","5">>
\* category <> 'Electronics'
condNotEqual ==
    <<"c","a","t","e","g","o","r","y"," ","<",">"," ","'","E","l","e","c","t","r","o","n","i",
      "c","s","'">>
\* product.stock <= 10
condQualified ==
    <<"p","r","o","d","u","c","t",".","s","t","o","c","k"," ","<","="," ","1","0">>
\* email LIKE '%x_y'
condLike ==
    <<"e","m","a","i","l"," ","L","I","K","E"," ","'","%","x","_","y","'">>
\* c IN ('x,y', 'z')
condInStrings ==
    <<"c"," ","I","N"," ","(","'","x",",","y","'",","," ","'","z","'",")">>
\* d IN (10, 20)
condInNumbers ==
    <<"d"," ","I","N"," ","(","1","0",","," ","2","0",")">>
\* SELECT name FROM product WHERE 
lSelectNameWhere ==
    <<"S","E","L","E","C","T"," ","n","a","m","e"," ","F","R","O","M"," ","p","r","o","d","u",
      "c","t"," ","W","H","E","R","E"," ">>
\* total_amount
vTotalAmount ==
    <<"t","o","t","a","l","_","a","m","o","u","n","t">>
\* category
vCategory ==
    <<"c","a","t","e","g","o","r","y">>
\* Electronics
vElectronics ==
    <<"E","l","e","c","t","r","o","n","i","c","s">>
\* stock
vStock ==
    <<"s","t","o","c","k">>
\* email
vEmail ==
    <<"e","m","a","i","l">>
\* %x_y
vLikePattern ==
    <<"%","x","_","y">>
\* x,y
vCommaText ==
    <<"x",",","y">>

\* a condition of a WHERE clause: its text, its kind, the name of its column,
\* its operator, and its values, each a text and whether it is quoted
Cond(text, kind, column, operator, values) ==
    [text |-> text, kind |-> kind, column |-> column, operator |-> operator, values |-> values]
Bare(text) == [text |-> text, quoted |-> FALSE]
Quoted(text) == [text |-> text, quoted |-> TRUE]

\* the conditions a WHERE clause is made of, in the order they are taken
WherePool ==
    << Cond(condBetweenA, "between", <<"a">>, kBETWEEN, <<Bare(<<"1">>), Bare(<<"2">>)>>),
       Cond(condBetweenB, "between", <<"b">>, kBETWEEN, <<Bare(<<"3">>), Bare(<<"4">>)>>),
       Cond(condInStrings, "in", <<"c">>, kIN, <<Quoted(vCommaText), Quoted(<<"z">>)>>),
       Cond(condInNumbers, "in", <<"d">>, kIN, <<Bare(<<"1", "0">>), Bare(<<"2", "0">>)>>),
       Cond(condGreater, "compare", vTotalAmount, <<">">>, <<Bare(<<"5">>)>>),
       Cond(condNotEqual, "compare", vCategory, <<"<", ">">>, <<Quoted(vElectronics)>>),
       Cond(condQualified, "compare", vStock, <<"<", "=">>, <<Bare(<<"1", "0">>)>>),
       Cond(condLike, "like", vEmail, kLIKE, <<Quoted(vLikePattern)>>) >>

\* how many conditions a WHERE clause has
MaxConds == 3

\* the WHERE clauses: conditions of the pool in its order, joined by AND or,
\* when there are several, by OR
ConditionLists ==
    {s \in UNION {[1..n -> 1..Len(WherePool)] : n \in 1..MaxConds} :
        \A i \in 1..(Len(s) - 1) : s[i] < s[i + 1]}
Connectors == {kAND, kOR}

\* SELECT name FROM product WHERE c1 AND c2 ...
WhereText(conds, connector) ==
    lSelectNameWhere
    \o Join([i \in 1..Len(conds) |-> WherePool[conds[i]].text], <<" ">> \o connector \o <<" ">>)

\* one call convert(sql_query) on a new instance
DoConvertWhere ==
    /\ calls = 0
    /\ \E conds \in ConditionLists, connector \in Connectors :
          /\ Len(conds) = 1 => connector = kAND
          /\ \E r \in {Convert(WhereText(conds, connector), converter, NoId)} :
                /\ converter' = r.inst
                /\ input' = [text |-> WhereText(conds, connector),
                             conds |-> [i \in 1..Len(conds) |-> WherePool[conds[i]]],
                             connector |-> connector]
                /\ out' = r.out
    /\ prev' = [input |-> input, out |-> out]
    /\ calls' = calls + 1

NextWhere == DoConvertWhere

SpecWhere == Init /\ [][NextWhere]_vars

-----------------------------------------------------------------------------
(* What the claims say of the filters of a WHERE clause                     *)

\* the variables ?name of a text
VariablesIn(text) ==
    {Slice(text, k, SkipIn(text, WordChars, k + 1) - 1) :
        k \in {j \in 1..(Len(text) - 1) : text[j] = "?" /\ text[j + 1] \in WordChars}}

\* the triple pattern's subject or object is the variable
BoundBy(pattern, variable) ==
    \/ StartsWith(pattern, variable \o <<" ">>)
    \/ EndsWith(pattern, <<" ">> \o variable)

\* a value as SPARQL writes it: a number bare, a string in double quotes
RenderedValue(value) ==
    IF value.quoted THEN <<"\"">> \o value.text \o <<"\"">> ELSE value.text

\* col OP value as a filter expression on the variable named after the column
ComparisonExpr(cond) ==
    <<"?">> \o cond.column \o <<" ">>
    \o (IF cond.operator = <<"<", ">">> THEN lNe ELSE cond.operator)
    \o <<" ">> \o RenderedValue(cond.values[1])

\* c BETWEEN a AND b as a filter expression
BetweenExpr(cond) ==
    <<"?">> \o cond.column \o <<" ", ">", "=", " ">> \o cond.values[1].text \o lAndAnd
    \o <<"?">> \o cond.column \o <<" ", "<", "=", " ">> \o cond.values[2].text

\* c LIKE 'pat' as a filter expression
LikeExpr(cond) ==
    lRegexOpen \o <<"?">> \o cond.column \o lRegexMid
    \o Replace(Replace(cond.values[1].text, <<"%">>, lDotStar), <<"_">>, <<".">>)
    \o lRegexEnd

\* c IN (v1, ..., vk) as a filter expression
InExpr(cond) ==
    <<"?">> \o cond.column \o lInOpen
    \o Join([i \in 1..Len(cond.values) |-> RenderedValue(cond.values[i])], lCommaSp)
    \o <<")">>

\* the filter expression of a condition
CondExpr(cond) ==
    CASE cond.kind = "between" -> BetweenExpr(cond)
      [] cond.kind = "like" -> LikeExpr(cond)
      [] cond.kind = "in" -> InExpr(cond)
      [] OTHER -> ComparisonExpr(cond)

\* FILTER(expression)
FilterOf(expression) == lFilterOpen \o expression \o <<")">>

\* a filter of the query built, without the FILTER( ) the expression path
\* puts around it
FilterBody(filter) ==
    IF StartsWith(filter, lFilterOpen) /\ EndsWith(filter, <<")">>)
    THEN Slice(filter, Len(lFilterOpen) + 1, Len(filter) - 1)
    ELSE filter

\* a WHERE clause was converted
ConvertedWhere == calls > 0 /\ out.ok

\* the conditions of the kind in the WHERE clause converted
CondsOfKind(kind) == {i \in 1..Len(input.conds) : input.conds[i].kind = kind}

\* C7: every variable in a FILTER of a converted SELECT is the subject or the
\* object of a triple pattern of the same WHERE block
C7_FilterVariablesBound ==
    ConvertedWhere =>
        \A i \in 1..Len(out.filters) : \A v \in VariablesIn(out.filters[i]) :
            \E j \in 1..Len(out.patterns) : BoundBy(out.patterns[j], v)

\* C8: a WHERE of conditions joined by AND gives one filter
\* ?c >= a && ?c <= b for each BETWEEN in it, and every filter is on a
\* column of the WHERE clause, none made of the halves of a BETWEEN
C8_OneFilterPerBetween ==
    (ConvertedWhere /\ input.connector = kAND) =>
        /\ \A i \in CondsOfKind("between") :
              Cardinality({j \in 1..Len(out.filters) :
                  FilterBody(out.filters[j]) = BetweenExpr(input.conds[i])}) = 1
        /\ CondsOfKind("between") # {} =>
              \A j \in 1..Len(out.filters) : \A v \in VariablesIn(out.filters[j]) :
                  \E i \in 1..Len(input.conds) : Contains(v, input.conds[i].column)

\* C9: c LIKE 'pat' gives regex(?c, "P", "i"), P being pat with .* for
\* every % and . for every _, on whichever path converts the query
C9_LikeAsRegex ==
    ConvertedWhere =>
        \A i \in CondsOfKind("like") : Contains(out.text, LikeExpr(input.conds[i]))

\* C10: c IN (v1, ..., vk) gives ?c IN (w1, ..., wk) with the k values in
\* their order, numbers bare and strings in double quotes, and joined to
\* another condition by OR it stands with it in one FILTER around ||
C10_InList ==
    ConvertedWhere =>
        /\ \A i \in CondsOfKind("in") : Contains(out.text, InExpr(input.conds[i]))
        /\ ( /\ input.connector = kOR /\ Len(input.conds) = 2
             /\ input.conds[1].kind = "in" /\ input.conds[2].kind = "compare" ) =>
              Contains(out.text, FilterOf(InExpr(input.conds[1]) \o lOrOr
                                          \o ComparisonExpr(input.conds[2])))

\* C11: a WHERE of comparisons col OP literal joined by AND gives one
\* FILTER(?col OP' value) for each, the variable named after the column,
\* <> written !=, numbers bare and strings in double quotes
C11_ComparisonFilters ==
    (ConvertedWhere /\ input.connector = kAND /\ CondsOfKind("compare") = 1..Len(input.conds)) =>
        \A i \in 1..Len(input.conds) :
            Contains(out.text, FilterOf(ComparisonExpr(input.conds[i])))

-----------------------------------------------------------------------------
(* A new converter and one SELECT with GROUP BY, with or without HAVING     *)

\* fullname
aFullname ==
    <<"f","u","l","l","n","a","m","e">>
\* org
aOrg ==
    <<"o","r","g">>
\* COUNT(name)
aCountName ==
    <<"C","O","U","N","T","(","n","a","m","e",")">>
\*  FROM product GROUP BY 
lFromProductGroupBy ==
    <<" ","F","R","O","M"," ","p","r","o","d","u","c","t"," ","G","R","O","U","P"," ","B","Y",
      " ">>
\*  HAVING COUNT(name) > 1
lHavingCountName ==
    <<" ","H","A","V","I","N","G"," ","C","O","U","N","T","(","n","a","m","e",")"," ",">"," ",
      "1">>
\*  > 1
lGreaterOne ==
    <<" ",">"," ","1">>

\* the attributes projected and grouped on: fullname holds name, and the
\* namespace http://example.org/ontology/ holds org
GroupedAttributes ==
    {[text |-> aFullname, kind |-> "plain", name |-> aFullname],
     [text |-> aName, kind |-> "plain", name |-> aName],
     [text |-> aOrg, kind |-> "plain", name |-> aOrg],
     [text |-> aCountName, kind |-> "aggregate", name |-> aName]}
GroupingAttributes == {a \in GroupedAttributes : a.kind = "plain"}

\* the HAVING clauses: none, or COUNT(name) > 1
NoHaving == [text |-> <<>>, aggregate |-> <<>>, name |-> <<>>, rest |-> <<>>]
HavingClauses ==
    {NoHaving,
     [text |-> lHavingCountName, aggregate |-> kCOUNT, name |-> aName, rest |-> lGreaterOne]}

GroupProjections == UNION {[1..n -> GroupedAttributes] : n \in 1..MaxAttrs}

\* SELECT a1, ..., aN FROM product GROUP BY g and the HAVING clause
GroupText(attributes, group, having) ==
    lSelectSp \o Join([i \in 1..Len(attributes) |-> attributes[i].text], lCommaSp)
    \o lFromProductGroupBy \o group.text \o having.text

\* one call convert(sql_query) on a new instance
DoConvertGroup ==
    /\ calls = 0
    /\ \E attributes \in GroupProjections, group \in GroupingAttributes, having \in HavingClauses :
          \E r \in {Convert(GroupText(attributes, group, having), converter, NoId)} :
              /\ converter' = r.inst
              /\ input' = [text |-> GroupText(attributes, group, having),
                           attributes |-> attributes, group |-> group, having |-> having]
              /\ out' = r.out
    /\ prev' = [input |-> input, out |-> out]
    /\ calls' = calls + 1

NextGroup == DoConvertGroup

SpecGroup == Init /\ [][NextGroup]_vars

\* what follows the keyword on its line of the text, in a sequence; <<>> if
\* the text has no such line
ClauseOf(text, keyword) ==
    LET f == Find(text, keyword)
    IN  IF f = 0 THEN <<>>
        ELSE <<Slice(text, f + Len(keyword), LineEnd(text, f) - 1)>>

\* the variables that the triple patterns bind as the object of the
\* attribute's own predicate
ObjectVariablesOf(name) ==
    {v \in UNION {VariablesIn(out.patterns[j]) : j \in 1..Len(out.patterns)} :
        \E j \in 1..Len(out.patterns) :
            EndsWith(out.patterns[j], <<" ">> \o GetPredicateUri(name) \o <<" ">> \o v)}

\* where the grouping attribute is projected without an aggregate
ProjectedAt == {i \in 1..Len(input.attributes) : input.attributes[i] = input.group}

\* C12: a grouping attribute that is projected without an aggregate is
\* grouped on the variable that the projection gave to that attribute
C12_GroupOnProjectedVariable ==
    (calls > 0 /\ out.ok /\ ProjectedAt # {}) =>
        ClauseOf(out.text, lGroupBySp) \in {<<out.select_vars[i]>> : i \in ProjectedAt}

\* C13: the HAVING expression is FUNC(?v) OP value, ?v being the variable
\* that a triple pattern binds as the object of the aggregated attribute
C13_HavingOnBaseVariable ==
    (calls > 0 /\ out.ok /\ input.having # NoHaving) =>
        ClauseOf(out.text, lHavingOpen) \in
            {<<input.having.aggregate \o <<"(">> \o v \o <<")">> \o input.having.rest \o <<")">>>> :
                v \in ObjectVariablesOf(input.having.name)}

-----------------------------------------------------------------------------
(* A new converter and one INSERT, put together from columns and values     *)

\* INSERT INTO client (
lInsertIntoClient ==
    <<"I","N","S","E","R","T"," ","I","N","T","O"," ","c","l","i","e","n","t"," ","(">>
\* ) VALUES (
lValuesOpen ==
    <<")"," ","V","A","L","U","E","S"," ","(">>
\* Bob
vBob ==
    <<"B","o","b">>
\* http://a.b/c
vHomepage ==
    <<"h","t","t","p",":","/","/","a",".","b","/","c">>
\* Smith, Bob
vSmithBob ==
    <<"S","m","i","t","h",","," ","B","o","b">>
\* a"b
vQuote ==
    <<"a","\"","b">>
\* age
aAge ==
    <<"a","g","e">>
\* code
aCode ==
    <<"c","o","d","e">>
\* homepage
aHomepage ==
    <<"h","o","m","e","p","a","g","e">>
\* address
aAddress ==
    <<"a","d","d","r","e","s","s">>
\* note
aNote ==
    <<"n","o","t","e">>
\* client
lClient ==
    <<"c","l","i","e","n","t">>

\* a column with the value inserted: the value, what kind of literal it is,
\* and whether the SQL text has it in single quotes
Inserted(column, value, kind, quoted) ==
    [column |-> column, value |-> value, kind |-> kind, quoted |-> quoted]

\* the columns an INSERT is made of, in the order they are taken
InsertPool ==
    << Inserted(aName, vBob, "string", TRUE),
       Inserted(aAge, <<"2", "5">>, "number", FALSE),
       Inserted(aCode, <<"2", "5">>, "number", TRUE),
       Inserted(aHomepage, vHomepage, "uri", TRUE),
       Inserted(aSubject, <<"x">>, "string", TRUE),
       Inserted(aAddress, vSmithBob, "string", TRUE),
       Inserted(aNote, vQuote, "string", TRUE) >>

\* how many columns an INSERT has
MaxColumns == 3

ColumnLists ==
    {s \in UNION {[1..n -> 1..Len(InsertPool)] : n \in 1..MaxColumns} :
        \A i \in 1..(Len(s) - 1) : s[i] < s[i + 1]}

\* the value as the SQL text has it
SqlLiteral(p) == IF p.quoted THEN <<"'">> \o p.value \o <<"'">> ELSE p.value

\* INSERT INTO client (c1, ..., ck) VALUES (v1, ..., vk)
InsertText(columns) ==
    lInsertIntoClient
    \o Join([i \in 1..Len(columns) |-> columns[i].column], lCommaSp)
    \o lValuesOpen
    \o Join([i \in 1..Len(columns) |-> SqlLiteral(columns[i])], lCommaSp)
    \o <<")">>

\* one call convert(sql_query) on a new instance; uuid4 gives entity_id
DoConvertInsert ==
    /\ calls = 0
    /\ \E s \in ColumnLists, entity_id \in EntityIds :
          \E columns \in {[i \in 1..Len(s) |-> InsertPool[s[i]]]} :
          \E r \in {Convert(InsertText(columns), converter, entity_id)} :
              /\ converter' = r.inst
              /\ input' = [text |-> InsertText(columns), columns |-> columns,
                           entity_id |-> entity_id]
              /\ out' = r.out
    /\ prev' = [input |-> input, out |-> out]
    /\ calls' = calls + 1

NextInsert == DoConvertInsert

SpecInsert == Init /\ [][NextInsert]_vars

\* the object that the value is to be written as
ExpectedObject(p) ==
    CASE p.kind = "uri" -> <<"<">> \o p.value \o <<">">>
      [] p.kind = "number" -> p.value
      [] OTHER -> <<"\"">>
                  \o Replace(Replace(Replace(p.value, <<"\"">>, <<"\\", "\"">>),
                                     <<"\n">>, <<"\\", "n">>), <<"\r">>, <<"\\", "r">>)
                  \o <<"\"">>

\* <base>/<relation>/<id> in angle brackets
EntityUri(relation, entity_id) ==
    <<"<">> \o kBaseUri \o relation \o <<"/">> \o entity_id \o <<">">>

\* the lines of the INSERT DATA block that the columns ask for
ExpectedTriples(relation, columns, entity_id) ==
    LET kept == SelectSeq(columns, LAMBDA p : p.column # aSubject)
    IN  <<EntityUri(relation, entity_id) \o <<" ">> \o kRdfType \o <<" ">> \o GetTypeUri(relation)>>
        \o [i \in 1..Len(kept) |->
              EntityUri(relation, entity_id) \o <<" ">> \o GetPredicateUri(kept[i].column)
              \o <<" ">> \o ExpectedObject(kept[i])]

\* C14: an INSERT gives the rdf:type triple of the relation and then one
\* property triple for each column that is not subject, in their order, all
\* on one subject, the object being the column's value as a URI, a bare
\* number or an escaped string in double quotes
C14_InsertTriples ==
    (calls > 0 /\ out.ok) =>
        out.text = lInsertOpen
                   \o Join([i \in 1..Len(ExpectedTriples(lClient, input.columns, input.entity_id)) |->
                              <<" ", " ">>
                              \o ExpectedTriples(lClient, input.columns, input.entity_id)[i]
                              \o lDotNl], <<>>)
                   \o <<"}">>

\* the subject of the first triple of an INSERT DATA block
InsertedSubject(text) ==
    Slice(text, Len(lInsertOpen) + 3, FindFrom(text, <<" ">>, Len(lInsertOpen) + 3) - 1)

\* the conversion before the last and the last both gave an INSERT DATA block
TwoInserts ==
    /\ calls > 1 /\ out.ok /\ prev.out.ok
    /\ StartsWith(out.text, lInsertOpen) /\ StartsWith(prev.out.text, lInsertOpen)

\* C15: no two INSERT conversions give the same entity identifier, and the
\* subject is <base>/<relation>/<id>
C15_UniqueEntityIds ==
    TwoInserts =>
        /\ InsertedSubject(out.text) # InsertedSubject(prev.out.text)
        /\ \E entity_id \in EntityIds : InsertedSubject(out.text) = EntityUri(lClient, entity_id)



-----------------------------------------------------------------------------
(* InsertDeleteConverter.convert_delete, called with a relation and the     *)
(* conditions of a WHERE clause, and the text of the query it gives         *)

\* product
lProduct ==
    <<"p","r","o","d","u","c","t">>
\* orders
lOrders ==
    <<"o","r","d","e","r","s">>
\* John
vJohn ==
    <<"J","o","h","n">>
\* email
aEmail ==
    <<"e","m","a","i","l">>
\* price
aPrice ==
    <<"p","r","i","c","e">>
\* status
aStatus ==
    <<"s","t","a","t","u","s">>
\* %example.com
vLikeTail ==
    <<"%","e","x","a","m","p","l","e",".","c","o","m">>
\* http://example.org/client/1
vSubjectUri ==
    <<"h","t","t","p",":","/","/","e","x","a","m","p","l","e",".","o","r","g","/","c","l","i",
      "e","n","t","/","1">>
\* FILTER
lFILTER ==
    <<"F","I","L","T","E","R">>

\* a WhereCondition on an attribute without relation
Filter(name, operator, value) ==
    [attribute |-> Attribute(<<>>, name, <<>>, <<>>), operator |-> operator, value |-> value]

DeleteTables == {lClient, lProduct, lOrders}

\* the conditions a DELETE is given
DeleteFilters ==
    {Filter(aName, <<"=">>, vJohn), Filter(aAge, <<">">>, <<"3", "0">>),
     Filter(aEmail, kLIKE, vLikeTail), Filter(aStatus, <<"<", ">">>, <<"a">>),
     Filter(aPrice, <<"<", "=">>, <<"5">>), Filter(aSubject, <<"=">>, vSubjectUri)}

\* how many conditions a DELETE has
MaxFilters == 2

FilterLists == UNION {[1..n -> DeleteFilters] : n \in 0..MaxFilters}

\* one call of convert_delete, as _convert_delete_query makes it, and
\* to_string of the query built
DoConvertDelete ==
    /\ calls = 0
    /\ \E table_name \in DeleteTables, where_conditions \in FilterLists :
          \E q \in {ConvertDeleteQuery([delete_table |-> <<table_name>>,
                                        where_conditions |-> where_conditions])} :
              /\ input' = [table_name |-> table_name, where_conditions |-> where_conditions]
              /\ out' = [ok |-> TRUE, path |-> "convert_delete", text |-> QueryToString(q),
                         delete_patterns |-> q.delete_patterns,
                         where_patterns |-> q.where_patterns,
                         filter_conditions |-> q.filter_conditions]
    /\ prev' = [input |-> input, out |-> out]
    /\ calls' = calls + 1
    /\ UNCHANGED converter

NextDelete == DoConvertDelete

SpecDelete == Init /\ [][NextDelete]_vars

\* ?s0 rdf:type <type of the relation>
TypeGuard(table_name) ==
    [subject |-> lS0, predicate |-> kRdfType, object |-> kTypes \o Title(table_name) \o <<">">>]

\* ?s0 ?p ?o
Wildcard == [subject |-> lS0, predicate |-> lAnyP, object |-> lAnyO]

\* convert_delete was called without conditions
DeletedAll == calls > 0 /\ out.path = "convert_delete" /\ Len(input.where_conditions) = 0

\* convert_delete was called with conditions, none of them on subject
DeletedFiltered ==
    /\ calls > 0 /\ out.path = "convert_delete" /\ Len(input.where_conditions) > 0
    /\ \A i \in 1..Len(input.where_conditions) :
          Lower(input.where_conditions[i].attribute.name) # kSubject

\* C16: DELETE FROM R without WHERE gives the delete patterns ?s0 ?p ?o and
\* the rdf:type triple of R, the rdf:type triple as the only WHERE pattern,
\* and no filter, so that the text has no FILTER
C16_DeleteWithoutFilter ==
    DeletedAll =>
        /\ out.delete_patterns = <<Wildcard, TypeGuard(input.table_name)>>
        /\ out.where_patterns = <<TypeGuard(input.table_name)>>
        /\ out.filter_conditions = <<>>
        /\ ~Contains(out.text, lFILTER)

C16_Witness ==
    /\ DeletedAll /\ input.table_name = lProduct
    /\ Len(out.delete_patterns) = 2 /\ Contains(out.text, lDeleteOpen)

\* C17: a DELETE with n filters on attributes other than subject keeps the
\* rdf:type triple first in the WHERE patterns, has for the i-th filter one
\* WHERE triple and the same triple as DELETE triple, on ?s0 and the
\* attribute's predicate, and one filter on the object variable of that
\* triple, and deletes the rdf:type triple once
C17_DeleteWithFilters ==
    DeletedFiltered =>
        LET n == Len(input.where_conditions)
        IN  /\ Len(out.where_patterns) = n + 1
            /\ Len(out.delete_patterns) = n + 1
            /\ Len(out.filter_conditions) = n
            /\ out.where_patterns[1] = TypeGuard(input.table_name)
            /\ \A i \in 1..n :
                  /\ out.delete_patterns[i] = out.where_patterns[i + 1]
                  /\ out.delete_patterns[i].subject = lS0
                  /\ out.delete_patterns[i].predicate
                        = kOntology \o input.where_conditions[i].attribute.name \o <<">">>
                  /\ VariablesIn(out.delete_patterns[i].object) = {out.delete_patterns[i].object}
                  /\ VariablesIn(out.filter_conditions[i]) = {out.delete_patterns[i].object}
            /\ Cardinality({j \in 1..(n + 1) :
                               out.delete_patterns[j] = TypeGuard(input.table_name)}) = 1

C17_Witness ==
    /\ DeletedFiltered /\ Len(input.where_conditions) = 2
    /\ input.where_conditions[1].operator = kLIKE
    /\ Len(out.filter_conditions) = 2 /\ Contains(out.text, lFILTER)





-----------------------------------------------------------------------------
(* A new converter and one combined query: SELECT branches joined by UNION  *)
(* or UNION ALL, with or without a trailing ORDER BY and LIMIT              *)

\* SELECT name FROM client
bClient ==
    <<"S","E","L","E","C","T"," ","n","a","m","e"," ","F","R","O","M"," ","c","l","i","e","n",
      "t">>
\* select title from book
bBook ==
    <<"s","e","l","e","c","t"," ","t","i","t","l","e"," ","f","r","o","m"," ","b","o","o","k">>
\* SELECT label FROM product WHERE price < 100
bProduct ==
    <<"S","E","L","E","C","T"," ","l","a","b","e","l"," ","F","R","O","M"," ","p","r","o","d",
      "u","c","t"," ","W","H","E","R","E"," ","p","r","i","c","e"," ","<"," ","1","0","0">>
\* SELECT city FROM supplier
bSupplier ==
    <<"S","E","L","E","C","T"," ","c","i","t","y"," ","F","R","O","M"," ","s","u","p","p","l",
      "i","e","r">>
\* title
aTitle ==
    <<"t","i","t","l","e">>
\* label
aLabel ==
    <<"l","a","b","e","l">>
\* city
aCity ==
    <<"c","i","t","y">>
\*  UNION 
sepUnion ==
    <<" ","U","N","I","O","N"," ">>
\*  union all 
sepUnionAllLower ==
    <<" ","u","n","i","o","n"," ","a","l","l"," ">>
\* \nUNION ALL\n
sepUnionAllLines ==
    <<"\n","U","N","I","O","N"," ","A","L","L","\n">>
\*  LIMIT 10
trLimit ==
    <<" ","L","I","M","I","T"," ","1","0">>
\*  ORDER BY name
trOrderBy ==
    <<" ","O","R","D","E","R"," ","B","Y"," ","n","a","m","e">>
\* \nORDER BY name DESC LIMIT 5
trOrderByLimit ==
    <<"\n","O","R","D","E","R"," ","B","Y"," ","n","a","m","e"," ","D","E","S","C"," ","L","I",
      "M","I","T"," ","5">>
\* LIMIT 10
lLimit10 ==
    <<"L","I","M","I","T"," ","1","0">>
\* LIMIT 5
lLimit5 ==
    <<"L","I","M","I","T"," ","5">>
\* ORDER BY
lORDERBY ==
    <<"O","R","D","E","R"," ","B","Y">>
\* \n  { 
lBlockLine ==
    <<"\n"," "," ","{"," ">>

\* a branch: its SELECT, whether it stands in parentheses, and its column
Branch(sql, parenthesised, column) ==
    [sql |-> sql, parenthesised |-> parenthesised, column |-> column]

\* the branches a combined query is made of, in the order they are taken
BranchPool ==
    << Branch(bClient, FALSE, aName), Branch(bBook, FALSE, aTitle),
       Branch(bProduct, FALSE, aLabel), Branch(bSupplier, TRUE, aCity) >>

\* what joins the branches
UnionSeparators == {sepUnion, sepUnionAllLower, sepUnionAllLines}

\* what follows the last branch: the text, and the LIMIT line and whether
\* there is an ORDER BY line to come of it
Trailer(text, limit, ordered) == [text |-> text, limit |-> limit, ordered |-> ordered]
NoTrailer == Trailer(<<>>, <<>>, FALSE)
Trailers ==
    {NoTrailer, Trailer(trLimit, lLimit10, FALSE), Trailer(trOrderBy, <<>>, TRUE),
     Trailer(trOrderByLimit, lLimit5, TRUE)}

\* how many branches a combined query has
MaxBranches == 3

BranchLists ==
    {s \in UNION {[1..n -> 1..Len(BranchPool)] : n \in 2..MaxBranches} :
        \A i \in 1..(Len(s) - 1) : s[i] < s[i + 1]}

BranchText(b) == IF b.parenthesised THEN <<"(">> \o b.sql \o <<")">> ELSE b.sql

\* B1 UNION ... UNION Bn and the trailer
UnionText(branches, separator, trailer) ==
    Join([i \in 1..Len(branches) |-> BranchText(branches[i])], separator) \o trailer.text

\* one call convert(sql_query) on a new instance
DoConvertUnion ==
    /\ calls = 0
    /\ \E s \in BranchLists, separator \in UnionSeparators, trailer \in Trailers :
          \E branches \in {[i \in 1..Len(s) |-> BranchPool[s[i]]]} :
          \E r \in {Convert(UnionText(branches, separator, trailer), converter, NoId)} :
              /\ converter' = r.inst
              /\ input' = [text |-> UnionText(branches, separator, trailer),
                           branches |-> branches, trailer |-> trailer]
              /\ out' = r.out
    /\ prev' = [input |-> input, out |-> out]
    /\ calls' = calls + 1

NextUnion == DoConvertUnion

SpecUnion == Init /\ [][NextUnion]_vars

\* how many times the text has the pattern
Occurrences(text, pattern) ==
    Cardinality({k \in 1..Len(text) : StartsAt(text, pattern, k)})

\* where the last closing brace of the text is
LastBrace(text) == LastAt(1, Len(text), LAMBDA k : text[k] = "}")

\* the first line of the text
FirstLine(text) == Slice(text, 1, LineEnd(text, 1) - 1)

\* a combined query was converted
ConvertedUnion == calls > 0 /\ out.ok /\ out.path = "union"

\* C18: with a trailing ORDER BY and/or LIMIT k the output has every branch,
\* and LIMIT k and ORDER BY once each, after the closing brace of the
\* combined pattern
C18_TrailingClausesOnce ==
    (ConvertedUnion /\ input.trailer # NoTrailer) =>
        /\ \A i \in 1..Len(input.branches) :
              Contains(out.text, GetPredicateUri(input.branches[i].column))
        /\ IF input.trailer.limit # <<>>
           THEN /\ Occurrences(out.text, kLIMIT) = 1
                /\ Find(out.text, <<"\n">> \o input.trailer.limit) > LastBrace(out.text)
           ELSE Occurrences(out.text, kLIMIT) = 0
        /\ IF input.trailer.ordered
           THEN /\ Occurrences(out.text, lORDERBY) = 1
                /\ Find(out.text, <<"\n">> \o lORDERBY) > LastBrace(out.text)
           ELSE Occurrences(out.text, lORDERBY) = 0

C18_Witness ==
    /\ ConvertedUnion /\ Len(input.branches) = 3
    /\ input.trailer.limit = lLimit5 /\ input.trailer.ordered
    /\ EndsWith(out.text, <<"\n">> \o lLimit5)

\* C19: a UNION or UNION ALL of n branches gives one SELECT clause, that of
\* the first branch, n branch blocks in one WHERE block, n + 1 opening and
\* n + 1 closing braces, n - 1 times UNION, and nowhere ALL
C19_UnionShape ==
    ConvertedUnion =>
        LET n == Len(input.branches)
        IN  /\ Occurrences(out.text, kSELECT) = 1
            /\ FirstLine(out.text) = FirstLine(FreshOutcome(input.branches[1].sql).text)
            /\ Occurrences(out.text, lWhereOpen) = 1
            /\ Occurrences(out.text, lBlockLine) = n
            /\ Occurrences(out.text, <<"{">>) = n + 1
            /\ Occurrences(out.text, <<"}">>) = n + 1
            /\ Occurrences(out.text, kUNION) = n - 1
            /\ ~Contains(out.text, kALL)

C19_Witness ==
    /\ ConvertedUnion /\ Len(input.branches) = 3
    /\ input.branches[3].parenthesised
    /\ Contains(Upper(input.text), kALL)
    /\ Occurrences(out.text, kUNION) = 2

-----------------------------------------------------------------------------
(* A new converter and one combined query Q1 INTERSECT Q2 or Q1 EXCEPT Q2   *)

\* SELECT email FROM person WHERE age > 30
bPerson ==
    <<"S","E","L","E","C","T"," ","e","m","a","i","l"," ","F","R","O","M"," ","p","e","r","s",
      "o","n"," ","W","H","E","R","E"," ","a","g","e"," ",">"," ","3","0">>
\*  INTERSECT 
sepIntersect ==
    <<" ","I","N","T","E","R","S","E","C","T"," ">>
\*  EXCEPT 
sepExcept ==
    <<" ","E","X","C","E","P","T"," ">>
\*  intersect 
sepIntersectLower ==
    <<" ","i","n","t","e","r","s","e","c","t"," ">>
\* \nexcept\n
sepExceptLines ==
    <<"\n","e","x","c","e","p","t","\n">>
\* FILTER EXISTS {
lFilterExists ==
    <<"F","I","L","T","E","R"," ","E","X","I","S","T","S"," ","{">>
\* FILTER NOT EXISTS {
lFilterNotExists ==
    <<"F","I","L","T","E","R"," ","N","O","T"," ","E","X","I","S","T","S"," ","{">>

\* the branches of the two sides
CombinePool ==
    {Branch(bClient, FALSE, aName), Branch(bBook, FALSE, aTitle),
     Branch(bProduct, FALSE, aLabel), Branch(bSupplier, FALSE, aCity),
     Branch(bPerson, FALSE, aEmail)}

\* what stands between the two sides, and the block it asks for
Combinations ==
    {[text |-> sepIntersect, block |-> lFilterExists],
     [text |-> sepIntersectLower, block |-> lFilterExists],
     [text |-> sepExcept, block |-> lFilterNotExists],
     [text |-> sepExceptLines, block |-> lFilterNotExists]}

\* one call convert(sql_query) on a new instance
DoConvertCombination ==
    /\ calls = 0
    /\ \E left \in CombinePool, right \in CombinePool, combination \in Combinations :
          \E r \in {Convert(left.sql \o combination.text \o right.sql, converter, NoId)} :
              /\ converter' = r.inst
              /\ input' = [text |-> left.sql \o combination.text \o right.sql,
                           left |-> left, right |-> right, combination |-> combination]
              /\ out' = r.out
    /\ prev' = [input |-> input, out |-> out]
    /\ calls' = calls + 1

NextCombination == DoConvertCombination

SpecCombination == Init /\ [][NextCombination]_vars

\* C20: Q1 INTERSECT Q2 gives the pattern of Q1 and a FILTER EXISTS block
\* with the pattern of Q2 in it, Q1 EXCEPT Q2 the same with FILTER NOT EXISTS
C20_ExistenceFilter ==
    (calls > 0 /\ out.ok) =>
        LET block == Find(out.text, input.combination.block)
        IN  /\ block # 0
            /\ Find(out.text, GetPredicateUri(input.left.column)) \in 1..block
            /\ FindFrom(out.text, GetPredicateUri(input.right.column), block) # 0



-----------------------------------------------------------------------------
(* WhereConverter.convert, called with a list of join conditions on an      *)
(* instance that earlier calls may have used                                *)

\* relation.name as an operand of a join
Operand(relation, name) == Attribute(relation, name, <<>>, <<>>)
JoinOf(left_operand, right_operand) ==
    [left_operand |-> left_operand, right_operand |-> right_operand]

\* the joins: attribute with attribute, subject with attribute, attribute
\* with subject, subject with subject
JoinPool ==
    {JoinOf(Operand(<<"a">>, <<"x">>), Operand(<<"b">>, <<"y">>)),
     JoinOf(Operand(<<"b">>, <<"y">>), Operand(<<"c">>, <<"z">>)),
     JoinOf(Operand(<<"a">>, <<"x">>), Operand(<<"c">>, <<"z">>)),
     JoinOf(Operand(<<"a">>, kSubject), Operand(<<"b">>, <<"f", "k">>)),
     JoinOf(Operand(<<"a">>, <<"r", "e", "f">>), Operand(<<"c">>, kSubject)),
     JoinOf(Operand(<<"a">>, kSubject), Operand(<<"b">>, kSubject))}

\* how many join conditions a call is given
MaxJoins == 2

JoinLists == UNION {[1..n -> JoinPool] : n \in 1..MaxJoins}

\* self.subject_vars of a new instance, after a call on relation a, after
\* a call on the relations c and a
SubjectVarsBefore ==
    {<<>>,
     WhereGetSubjectVar(<<>>, <<"a">>),
     WhereGetSubjectVar(WhereGetSubjectVar(<<>>, <<"c">>), <<"a">>)}

\* one call convert(join_conditions, [], None)
DoWhereConvert ==
    /\ calls = 0
    /\ \E join_conditions \in JoinLists, subject_vars \in SubjectVarsBefore :
          \E r \in {WhereConvert(join_conditions, <<>>, <<>>,
                                 [subject_vars |-> subject_vars, triple_patterns |-> <<>>,
                                  filter_conditions |-> <<>>])} :
              /\ converter' = [converter EXCEPT
                                  !.where_subject_vars = r.fields.subject_vars,
                                  !.where_filter_conditions = r.fields.filter_conditions]
              /\ input' = [join_conditions |-> join_conditions, subject_vars |-> subject_vars]
              /\ out' = [ok |-> TRUE, path |-> "where_convert", patterns |-> r.patterns,
                         filters |-> r.filters]
    /\ prev' = [input |-> input, out |-> out]
    /\ calls' = calls + 1

NextJoin == DoWhereConvert

SpecJoin == Init /\ [][NextJoin]_vars

\* the converter was given join conditions
ConvertedJoins == calls > 0 /\ out.path = "where_convert"

\* how many sides of the join are subject
SubjectSides(join) ==
    (IF Lower(join.left_operand.name) = kSubject THEN 1 ELSE 0)
    + (IF Lower(join.right_operand.name) = kSubject THEN 1 ELSE 0)

\* how many triples the joins before the i-th and the i-th are to give
RECURSIVE TriplesUpTo(_, _)
TriplesUpTo(joins, i) ==
    IF i = 0 THEN 0 ELSE TriplesUpTo(joins, i - 1) + (2 - SubjectSides(joins[i]))

\* the subject variable that the converter holds for the relation
SubjectVarOf(relation) == DictGet(converter.where_subject_vars, relation, <<>>)

\* the triple patterns in which the variable stands
PatternsWith(variable) ==
    {k \in 1..Len(out.patterns) :
        variable \in {out.patterns[k].subject, out.patterns[k].object}}

\* C5: a join of two attributes gives two triples, on the subject variables
\* of the two relations and the predicates of the two attributes, with one
\* object variable that no other triple has; a join with one subject side
\* gives one triple from the subject variable of the attribute's relation
\* through the attribute's predicate to the subject variable of the other
C5_JoinTriples ==
    ConvertedJoins =>
        /\ Len(out.patterns) = TriplesUpTo(input.join_conditions, Len(input.join_conditions))
        /\ \A i \in 1..Len(input.join_conditions) :
              LET join == input.join_conditions[i]
                  left == join.left_operand
                  right == join.right_operand
                  at == TriplesUpTo(input.join_conditions, i - 1)
              IN  /\ SubjectVarOf(left.relation) # <<>>
                  /\ SubjectVarOf(right.relation) # <<>>
                  /\ SubjectVarOf(left.relation) # SubjectVarOf(right.relation)
                  /\ SubjectSides(join) = 0 =>
                        /\ out.patterns[at + 1].subject = SubjectVarOf(left.relation)
                        /\ out.patterns[at + 1].predicate = kOntology \o left.name \o <<">">>
                        /\ out.patterns[at + 2].subject = SubjectVarOf(right.relation)
                        /\ out.patterns[at + 2].predicate = kOntology \o right.name \o <<">">>
                        /\ out.patterns[at + 1].object = out.patterns[at + 2].object
                        /\ PatternsWith(out.patterns[at + 1].object) = {at + 1, at + 2}
                  /\ (SubjectSides(join) = 1 /\ Lower(left.name) = kSubject) =>
                        out.patterns[at + 1]
                            = [subject |-> SubjectVarOf(right.relation),
                               predicate |-> kOntology \o right.name \o <<">">>,
                               object |-> SubjectVarOf(left.relation)]
                  /\ (SubjectSides(join) = 1 /\ Lower(right.name) = kSubject) =>
                        out.patterns[at + 1]
                            = [subject |-> SubjectVarOf(left.relation),
                               predicate |-> kOntology \o left.name \o <<">">>,
                               object |-> SubjectVarOf(right.relation)]

C5_Witness ==
    /\ ConvertedJoins /\ Len(input.join_conditions) = 2
    /\ SubjectSides(input.join_conditions[1]) = 0
    /\ SubjectSides(input.join_conditions[2]) = 0
    /\ input.join_conditions[1] # input.join_conditions[2]
    /\ Len(input.subject_vars) = 2
    /\ Len(out.patterns) = 4

\* C6: for a join of subject with subject the filters that convert returns
\* have the equality of the two subject variables, and the join gives no
\* triple
C6_SubjectEqualityFilter ==
    ConvertedJoins =>
        \A i \in 1..Len(input.join_conditions) :
            SubjectSides(input.join_conditions[i]) = 2 =>
                /\ \E k \in 1..Len(out.filters) :
                      out.filters[k]
                          = SubjectVarOf(input.join_conditions[i].left_operand.relation)
                            \o lEqSp
                            \o SubjectVarOf(input.join_conditions[i].right_operand.relation)
                /\ TriplesUpTo(input.join_conditions, i)
                      = TriplesUpTo(input.join_conditions, i - 1)

-----------------------------------------------------------------------------
(* SPARQLQuery.to_string, called on a SELECT query put together from its    *)
(* parts                                                                    *)

vO0 == <<"?","o","0">>
vO1 == <<"?","o","1">>
vO2 == <<"?","o","2">>
vS0 == <<"?","s","0">>

\* the triples, filters, grouping variables, HAVING conditions and ORDER BY
\* entries that a rendered query takes its first ones from
RenderedPatterns ==
    <<Triple(vS0, kOntology \o <<"n",">">>, vO0), Triple(vS0, kOntology \o <<"a",">">>, vO1),
      Triple(vS0, kOntology \o <<"b",">">>, vO2)>>
RenderedFilters == <<vO1 \o <<" ",">"," ","5">>, vO2 \o <<" ","="," ","7">>, vO0 \o <<" ","<"," ","9">>>>
RenderedGroupVars == <<vO0, vO1, vO2>>
RenderedHaving ==
    <<<<"C","O","U","N","T","(">> \o vO1 \o <<")"," ",">"," ","1">>,
      <<"S","U","M","(">> \o vO2 \o <<")"," ","<"," ","9">>,
      <<"M","A","X","(">> \o vO1 \o <<")"," ","="," ","3">>>>
RenderedOrder == <<<<vO0, kASC>>, <<vO1, kDESC>>, <<vO2, kASC>>>>

\* how many entries of a kind a rendered query has
MaxItems == 2

\* limit and offset of a query: None, or a number that is not negative
Counts == {<<>>, <<0>>, <<10>>}

\* one call of to_string on a query with no insert triples and no delete
\* patterns
DoToString ==
    /\ calls = 0
    /\ \E np \in 0..MaxItems, nf \in 0..MaxItems, ng \in 0..MaxItems, nh \in 0..MaxItems,
          no \in 0..MaxItems, limit \in Counts, offset \in Counts :
          \E q \in {[EmptySparql EXCEPT
                        !.select_vars = <<vO0, vO1>>,
                        !.where_patterns = SubSeq(RenderedPatterns, 1, np),
                        !.filter_conditions = SubSeq(RenderedFilters, 1, nf),
                        !.group_by_vars = SubSeq(RenderedGroupVars, 1, ng),
                        !.having_conditions = SubSeq(RenderedHaving, 1, nh),
                        !.order_by_vars = SubSeq(RenderedOrder, 1, no),
                        !.limit = limit, !.offset = offset]} :
              /\ input' = q
              /\ out' = [ok |-> TRUE, path |-> "to_string", text |-> QueryToString(q)]
    /\ prev' = [input |-> input, out |-> out]
    /\ calls' = calls + 1
    /\ UNCHANGED converter

NextRender == DoToString

SpecRender == Init /\ [][NextRender]_vars

Rendered == calls > 0 /\ out.path = "to_string"

\* the lines of the text
LinesOf(text) == SplitOn(text, <<"\n">>)

\* the lines that the clauses of the query are to give, in their order
ExpectedLines(q) ==
    <<lSelectSp \o Join(q.select_vars, <<" ">>), <<"W","H","E","R","E"," ","{">>>>
    \o [i \in 1..Len(q.where_patterns) |->
          <<" ", " ">> \o q.where_patterns[i].subject \o <<" ">> \o q.where_patterns[i].predicate
          \o <<" ">> \o q.where_patterns[i].object \o <<" ", ".">>]
    \o [i \in 1..Len(q.filter_conditions) |-> lFilterIndent \o q.filter_conditions[i] \o <<")">>]
    \o <<<<"}">>>>
    \o (IF q.group_by_vars # <<>> THEN <<lGroupBySp \o Join(q.group_by_vars, <<" ">>)>> ELSE <<>>)
    \o (IF q.having_conditions # <<>>
        THEN <<lHavingOpen \o Join(q.having_conditions, lAndAnd) \o <<")">>>> ELSE <<>>)
    \o (IF q.order_by_vars # <<>>
        THEN <<lOrderBySp \o Join([i \in 1..Len(q.order_by_vars) |->
                                     q.order_by_vars[i][2] \o <<"(">> \o q.order_by_vars[i][1]
                                     \o <<")">>], <<" ">>)>>
        ELSE <<>>)
    \o (IF q.limit # <<>> THEN <<lLimitSp \o NatText(q.limit[1])>> ELSE <<>>)
    \o (IF q.offset # <<>> THEN <<lOffsetSp \o NatText(q.offset[1])>> ELSE <<>>)

\* C21: the text of a SELECT has, in this order, the SELECT clause, the
\* WHERE block with every triple before every FILTER, GROUP BY if there are
\* grouping variables, HAVING if there are conditions (joined by &&),
\* ORDER BY if there are entries, and LIMIT then OFFSET whenever the query
\* has them, 0 included
C21_ClauseOrder ==
    Rendered => LinesOf(out.text) = ExpectedLines(input)

\* the same, for the queries whose limit and offset are not 0
C21_ClauseOrderNonZero ==
    (Rendered /\ input.limit # <<0>> /\ input.offset # <<0>>)
        => LinesOf(out.text) = ExpectedLines(input)

-----------------------------------------------------------------------------
(* A new converter and one statement that is not a SELECT: an INSERT or a   *)
(* DELETE put together from its parts, some of them missing, or a text      *)
(* that begins with none of SELECT, INSERT and DELETE                       *)

\* INSERT INTO 
hInsertInto ==
    <<"I","N","S","E","R","T"," ","I","N","T","O"," ">>
\* INSERT 
hInsert ==
    <<"I","N","S","E","R","T"," ">>
\* insert into 
hInsertLower ==
    <<"i","n","s","e","r","t"," ","i","n","t","o"," ">>
\* DELETE FROM 
hDeleteFrom ==
    <<"D","E","L","E","T","E"," ","F","R","O","M"," ">>
\* DELETE 
hDelete ==
    <<"D","E","L","E","T","E"," ">>
\* delete from 
hDeleteLower ==
    <<"d","e","l","e","t","e"," ","f","r","o","m"," ">>
\*  (name)
pColName ==
    <<" ","(","n","a","m","e",")">>
\*  (name, age)
pColNameAge ==
    <<" ","(","n","a","m","e",","," ","a","g","e",")">>
\*  ()
pColNone ==
    <<" ","(",")">>
\*  VALUES ('Bob')
pValBob ==
    <<" ","V","A","L","U","E","S"," ","(","'","B","o","b","'",")">>
\*  VALUES ('Bob', 25)
pValBobAge ==
    <<" ","V","A","L","U","E","S"," ","(","'","B","o","b","'",","," ","2","5",")">>
\*  VALUES ()
pValNone ==
    <<" ","V","A","L","U","E","S"," ","(",")">>
\*  ('Bob')
pValBare ==
    <<" ","(","'","B","o","b","'",")">>
\*  WHERE name = 'Bob'
pWhereName ==
    <<" ","W","H","E","R","E"," ","n","a","m","e"," ","="," ","'","B","o","b","'">>
\* name FROM client
tNoKeyword ==
    <<"n","a","m","e"," ","F","R","O","M"," ","c","l","i","e","n","t">>
\* FETCH name FROM client
tFetch ==
    <<"F","E","T","C","H"," ","n","a","m","e"," ","F","R","O","M"," ","c","l","i","e","n","t">>
\* UPDATE client SET name = 'x'
tUpdate ==
    <<"U","P","D","A","T","E"," ","c","l","i","e","n","t"," ","S","E","T"," ","n","a","m","e",
      " ","="," ","'","x","'">>
\* DROP TABLE client
tDrop ==
    <<"D","R","O","P"," ","T","A","B","L","E"," ","c","l","i","e","n","t">>
\* client
tWord ==
    <<"c","l","i","e","n","t">>
\* SELECT \nWHERE {\n}
lSelectNl ==
    <<"S","E","L","E","C","T"," ","\n","W","H","E","R","E"," ","{","\n","}">>

\* a part of a statement: its text, and whether what it is to give is there
Part(text, located) == [text |-> text, located |-> located]

InsertHeads == {Part(hInsertInto, TRUE), Part(hInsert, FALSE), Part(hInsertLower, TRUE)}
DeleteHeads == {Part(hDeleteFrom, TRUE), Part(hDelete, FALSE), Part(hDeleteLower, TRUE)}
TargetRelations == {Part(lClient, TRUE), Part(lProduct, TRUE), Part(<<>>, FALSE)}
ColumnParts ==
    {Part(pColName, TRUE), Part(pColNameAge, TRUE), Part(pColNone, FALSE), Part(<<>>, FALSE)}
ValueParts ==
    {Part(pValBob, TRUE), Part(pValBobAge, TRUE), Part(pValNone, FALSE),
     Part(pValBare, FALSE), Part(<<>>, FALSE)}
DeleteTails == {<<>>, pWhereName}

\* a statement: its text, its kind, and whether a part of it is missing
Statement(text, kind, malformed) == [text |-> text, kind |-> kind, malformed |-> malformed]

InsertStatements ==
    {Statement(h.text \o t.text \o c.text \o v.text, "insert",
               ~(h.located /\ t.located /\ c.located /\ v.located)) :
        h \in InsertHeads, t \in TargetRelations, c \in ColumnParts, v \in ValueParts}
DeleteStatements ==
    {Statement(h.text \o t.text \o w, "delete", ~(h.located /\ t.located)) :
        h \in DeleteHeads, t \in TargetRelations, w \in DeleteTails}
OtherStatements ==
    {Statement(t, "other", TRUE) : t \in {tNoKeyword, tFetch, tUpdate, tDrop, tWord}}
Statements == InsertStatements \cup DeleteStatements \cup OtherStatements

\* one call convert(sql_query) on a new instance; uuid4 gives entity_id
\* when the statement is an INSERT
DoConvertStatement ==
    /\ calls = 0
    /\ \E s \in Statements :
          \E entity_id \in IF s.kind = "insert" /\ ~s.malformed THEN EntityIds ELSE {NoId} :
          \E r \in {Convert(s.text, converter, entity_id)} :
              /\ converter' = r.inst
              /\ input' = s
              /\ out' = r.out
    /\ prev' = [input |-> input, out |-> out]
    /\ calls' = calls + 1

NextStatement == DoConvertStatement

SpecStatement == Init /\ [][NextStatement]_vars

\* C22: convert raises an error, and returns no text, when the text begins
\* with none of SELECT, INSERT and DELETE, when the relation, the column
\* list or the value list of an INSERT is missing, and when the relation of
\* a DELETE is missing
C22_MalformedRaises ==
    (calls > 0 /\ input.malformed) => ~out.ok

\* the same, for the texts that begin with no keyword of a statement
C22_NoKeywordRaises ==
    (calls > 0 /\ input.kind = "other") => ~out.ok

\* an INSERT or a DELETE with a part missing for which convert returned
\* the text of an empty SELECT
C22_EmptySelectReturned ==
    /\ calls > 0 /\ input.malformed /\ out.ok
    /\ out.text = lSelectNl

-----------------------------------------------------------------------------
(* A new converter and one SELECT that has a construct the converter does   *)
(* not support: NOT IN, NOT BETWEEN, IS NULL, IS NOT NULL, or an aggregate  *)
(* inside an aggregate                                                      *)

\* description IS NULL
cIsNull ==
    <<"d","e","s","c","r","i","p","t","i","o","n"," ","I","S"," ","N","U","L","L">>
\* description IS NOT NULL
cIsNotNull ==
    <<"d","e","s","c","r","i","p","t","i","o","n"," ","I","S"," ","N","O","T"," ","N","U","L",
      "L">>
\* c NOT IN ('a', 'b')
cNotInStrings ==
    <<"c"," ","N","O","T"," ","I","N"," ","(","'","a","'",","," ","'","b","'",")">>
\* c NOT IN (1, 2)
cNotInNumbers ==
    <<"c"," ","N","O","T"," ","I","N"," ","(","1",","," ","2",")">>
\* price NOT BETWEEN 1 AND 2
cNotBetween ==
    <<"p","r","i","c","e"," ","N","O","T"," ","B","E","T","W","E","E","N"," ","1"," ","A","N",
      "D"," ","2">>
\* product.price NOT BETWEEN 1 AND 2
cNotBetweenQualified ==
    <<"p","r","o","d","u","c","t",".","p","r","i","c","e"," ","N","O","T"," ","B","E","T","W",
      "E","E","N"," ","1"," ","A","N","D"," ","2">>
\* stock > 3
cStock ==
    <<"s","t","o","c","k"," ",">"," ","3">>
\* name
sName ==
    <<"n","a","m","e">>
\* name, email
sNameEmail ==
    <<"n","a","m","e",","," ","e","m","a","i","l">>
\* product.name
sProductName ==
    <<"p","r","o","d","u","c","t",".","n","a","m","e">>
\* SUM(COUNT(price) * 2)
sNestedProduct ==
    <<"S","U","M","(","C","O","U","N","T","(","p","r","i","c","e",")"," ","*"," ","2",")">>
\* MAX(SUM(price) + 1)
sNestedSum ==
    <<"M","A","X","(","S","U","M","(","p","r","i","c","e",")"," ","+"," ","1",")">>
\* SELECT 
lSELECT ==
    <<"S","E","L","E","C","T"," ">>
\*  FROM 
lFROM ==
    <<" ","F","R","O","M"," ">>
\*  WHERE 
lWHERE ==
    <<" ","W","H","E","R","E"," ">>
\*  AND 
lAND ==
    <<" ","A","N","D"," ">>
\*  OR 
lOR ==
    <<" ","O","R"," ">>

\* a condition that is not supported, and its kind
Unsupported(text, kind) == [text |-> text, kind |-> kind]

UnsupportedConditions ==
    {Unsupported(cIsNull, "is_null"), Unsupported(cIsNotNull, "is_null"),
     Unsupported(cNotInStrings, "not_in"), Unsupported(cNotInNumbers, "not_in"),
     Unsupported(cNotBetween, "not_between"),
     Unsupported(cNotBetweenQualified, "not_between")}

\* what stands before and after the condition in the WHERE clause
Surroundings ==
    {<<<<>>, <<>>>>, <<<<>>, lAND \o cStock>>, <<cStock \o lAND, <<>>>>, <<<<>>, lOR \o cStock>>}

SelectLists == {sName, sNameEmail, sProductName}
NestedAggregates == {sNestedProduct, sNestedSum}
FromRelations == {lProduct, lClient}

UnsupportedQueries ==
    {[text |-> lSELECT \o s \o lFROM \o t \o lWHERE \o w[1] \o c.text \o w[2],
      kind |-> c.kind, condition |-> c.text, alone |-> w = <<<<>>, <<>>>>] :
        s \in SelectLists, t \in FromRelations, c \in UnsupportedConditions, w \in Surroundings}
    \cup {[text |-> lSELECT \o s \o lFROM \o t, kind |-> "nested_aggregate",
           condition |-> <<>>, alone |-> TRUE] :
            s \in NestedAggregates, t \in FromRelations}

\* one call convert(sql_query) on a new instance
DoConvertUnsupported ==
    /\ calls = 0
    /\ \E q \in UnsupportedQueries :
          \E r \in {Convert(q.text, converter, NoId)} :
              /\ converter' = r.inst
              /\ input' = q
              /\ out' = r.out
    /\ prev' = [input |-> input, out |-> out]
    /\ calls' = calls + 1

NextUnsupported == DoConvertUnsupported

SpecUnsupported == Init /\ [][NextUnsupported]_vars

\* C23: for a query whose WHERE has NOT IN, NOT BETWEEN or IS [NOT] NULL,
\* or whose projection has an aggregate inside an aggregate, convert fails
\* with an error and returns no query
C23_UnsupportedRaises ==
    calls > 0 => ~out.ok

\* the condition stands alone in the WHERE clause, and convert returned a
\* query with no filter at all
C23_ConditionDropped ==
    /\ calls > 0 /\ out.ok /\ input.alone /\ input.kind \in {"is_null", "not_in"}
    /\ out.filters = <<>>

\* NOT BETWEEN came out as the range filter of BETWEEN, on the variable ?not
C23_NegationLost ==
    /\ calls > 0 /\ out.ok /\ input.kind = "not_between"
    /\ \E i \in 1..Len(out.filters) :
          Contains(out.filters[i], <<"?","n","o","t"," ",">","="," ","1"," ","&","&"," ",
                                     "?","n","o","t"," ","<","="," ","2">>)

-----------------------------------------------------------------------------
(* A new SchemaMapper and one graph, in one order of its triples            *)

\* the triples a graph is made of
GraphSubjects == {uAlice, uBob}
GraphTypes == {uPersonA, uPersonB, uBook}
GraphPredicates == {uName, uAge}
CandidateTriples ==
    {Triple(s, kRdfTypeUri, t) : s \in GraphSubjects, t \in GraphTypes}
    \cup {Triple(s, p, <<"x">>) : s \in GraphSubjects, p \in GraphPredicates}

\* how many triples a graph has
MaxTriples == 3

\* the graphs, each in every order of its triples
VisitOrders ==
    {g \in UNION {[1..n -> CandidateTriples] : n \in 1..MaxTriples} :
        \A a, b \in 1..Len(g) : a # b => g[a] # g[b]}

\* SchemaMapper(graph).extract_schema()
DoExtractSchema ==
    /\ calls = 0
    /\ \E graph \in VisitOrders :
          \E tables \in ExtractSchema(graph) :
              /\ input' = [graph |-> graph]
              /\ out' = [ok |-> TRUE, path |-> "extract_schema", tables |-> tables]
    /\ prev' = [input |-> input, out |-> out]
    /\ calls' = calls + 1
    /\ UNCHANGED converter

NextSchema == DoExtractSchema

SpecSchema == Init /\ [][NextSchema]_vars

Extracted == calls > 0 /\ out.path = "extract_schema"

\* the part of a URI after its last # or /, in lower case
LocalName(uri) ==
    LET marks == {k \in 1..Len(uri) : uri[k] \in {"#", "/"}}
        last == IF marks = {} THEN 0 ELSE CHOOSE k \in marks : \A j \in marks : j <= k
    IN  Lower(SubSeq(uri, last + 1, Len(uri)))

GraphOf(graph) == {graph[i] : i \in 1..Len(graph)}
\* the types asserted of a subject; the catch-all type if there is none
TypesOfSubject(graph, subject) ==
    LET asserted == {t.object : t \in {u \in GraphOf(graph) :
                                          u.subject = subject /\ u.predicate = kRdfTypeUri}}
    IN  IF asserted = {} THEN {kOwlThing} ELSE asserted
\* the types observed in the graph
ObservedTypes(graph) ==
    {t.object : t \in {u \in GraphOf(graph) : u.predicate = kRdfTypeUri}}
    \cup UNION {TypesOfSubject(graph, t.subject) :
                   t \in {u \in GraphOf(graph) : u.predicate # kRdfTypeUri}}
\* the local names of the predicates observed on the subjects of a type
PredicatesOfType(graph, rdf_type) ==
    {LocalName(t.predicate) :
        t \in {u \in GraphOf(graph) :
                  u.predicate # kRdfTypeUri /\ rdf_type \in TypesOfSubject(graph, u.subject)}}
\* the attributes of a table after subject
AttributesAfterSubject(attributes) == {attributes[k] : k \in 2..Len(attributes)}

\* the schema has the tables and the attributes that the graph gives
SchemaOfGraph(graph, tables) ==
    /\ {tables[i][1] : i \in 1..Len(tables)} = {LocalName(ty) : ty \in ObservedTypes(graph)}
    /\ \A ty \in ObservedTypes(graph) :
          \E i \in 1..Len(tables) :
              /\ tables[i][1] = LocalName(ty)
              /\ tables[i][2][1] = kSubject
              /\ PredicatesOfType(graph, ty) \subseteq AttributesAfterSubject(tables[i][2])
    /\ \A i \in 1..Len(tables) :
          AttributesAfterSubject(tables[i][2])
              \subseteq UNION {PredicatesOfType(graph, ty) :
                                 ty \in {u \in ObservedTypes(graph) : LocalName(u) = tables[i][1]}}

\* C24: extract_schema gives one table for each rdf:type observed (the
\* catch-all type for subjects with none), named by the local name of the
\* type in lower case; its attributes begin with subject and are the local
\* names of the predicates observed on the subjects of the type, none lost
\* when two types have one local name, whatever the order of the triples
C24_SchemaOfGraph ==
    Extracted => SchemaOfGraph(input.graph, out.tables)

\* the same, for the graphs in which no two types have one local name
C24_SchemaWithoutSharedName ==
    (Extracted /\ \A a, b \in ObservedTypes(input.graph) : LocalName(a) = LocalName(b) => a = b)
        => SchemaOfGraph(input.graph, out.tables)



-----------------------------------------------------------------------------
(* SQLParser.parse of one SELECT whose WHERE clause is put together from    *)
(* join predicates and value predicates                                     *)

\* a.x = b.y
jAxBy ==
    <<"a",".","x"," ","="," ","b",".","y">>
\* client.subject = orders.client
jClientOrders ==
    <<"c","l","i","e","n","t",".","s","u","b","j","e","c","t"," ","="," ","o","r","d","e","r",
      "s",".","c","l","i","e","n","t">>
\* b.y = c.z
jByCz ==
    <<"b",".","y"," ","="," ","c",".","z">>
\* a.rating = 3.5
vRatingDecimal ==
    <<"a",".","r","a","t","i","n","g"," ","="," ","3",".","5">>
\* a.x = a.y
vSameRelation ==
    <<"a",".","x"," ","="," ","a",".","y">>
\* a.rating > 3.5
vRatingGreater ==
    <<"a",".","r","a","t","i","n","g"," ",">"," ","3",".","5">>
\* a.age = 25
vAge ==
    <<"a",".","a","g","e"," ","="," ","2","5">>
\* a.name = 'Bob'
vNameBob ==
    <<"a",".","n","a","m","e"," ","="," ","'","B","o","b","'">>
\* price = 3.5
vPriceDecimal ==
    <<"p","r","i","c","e"," ","="," ","3",".","5">>
\* b.y = 10.25
vByDecimal ==
    <<"b",".","y"," ","="," ","1","0",".","2","5">>
\* SELECT a.name FROM a, b, c WHERE 
lSelectFromAbc ==
    <<"S","E","L","E","C","T"," ","a",".","n","a","m","e"," ","F","R","O","M"," ","a",","," ",
      "b",","," ","c"," ","W","H","E","R","E"," ">>

\* a conjunct of a WHERE clause: a join predicate with its two column
\* references, or a value predicate
JoinConjunct(text, left_relation, left_name, right_relation, right_name) ==
    [text |-> text, kind |-> "join",
     left_operand |-> Attribute(left_relation, left_name, <<>>, <<>>),
     right_operand |-> Attribute(right_relation, right_name, <<>>, <<>>)]
ValueConjunct(text) ==
    [text |-> text, kind |-> "value", left_operand |-> <<>>, right_operand |-> <<>>]

Conjuncts ==
    {JoinConjunct(jAxBy, <<"a">>, <<"x">>, <<"b">>, <<"y">>),
     JoinConjunct(jClientOrders, lClient, kSubject, lOrders, lClient),
     JoinConjunct(jByCz, <<"b">>, <<"y">>, <<"c">>, <<"z">>),
     ValueConjunct(vRatingDecimal), ValueConjunct(vSameRelation),
     ValueConjunct(vRatingGreater), ValueConjunct(vAge), ValueConjunct(vNameBob),
     ValueConjunct(vPriceDecimal), ValueConjunct(vByDecimal)}

\* how many conjuncts a WHERE clause has
MaxConjuncts == 2

ConjunctLists == UNION {[1..n -> Conjuncts] : n \in 1..MaxConjuncts}

ConjunctionText(conjuncts) ==
    lSelectFromAbc \o Join([i \in 1..Len(conjuncts) |-> conjuncts[i].text], lAND)

\* one call parse(sql_query) on a new parser
DoParse ==
    /\ calls = 0
    /\ \E conjuncts \in ConjunctLists :
          \E r \in {Parse(ConjunctionText(conjuncts))} :
              /\ input' = [text |-> ConjunctionText(conjuncts), conjuncts |-> conjuncts]
              /\ out' = [ok |-> r.ok, path |-> "parse",
                         join_conditions |-> IF r.ok THEN r.query.join_conditions ELSE <<>>,
                         where_conditions |-> IF r.ok THEN r.query.where_conditions ELSE <<>>]
    /\ prev' = [input |-> input, out |-> out]
    /\ calls' = calls + 1
    /\ UNCHANGED converter

NextParse == DoParse

SpecParse == Init /\ [][NextParse]_vars

ParsedWhere == calls > 0 /\ out.path = "parse"

\* the conjuncts of the kind, in their order
ConjunctsOfKind(conjuncts, kind) == SelectSeq(conjuncts, LAMBDA c : c.kind = kind)

\* C25: the parser puts into join_conditions the conjuncts relA.attr =
\* relB.attr on two column references of different relations and no
\* others; a conjunct with a literal on the right, a decimal number
\* included, or with one relation on both sides, goes to where_conditions
C25_JoinClassification ==
    ParsedWhere =>
        LET joins == ConjunctsOfKind(input.conjuncts, "join")
            values == ConjunctsOfKind(input.conjuncts, "value")
        IN  /\ out.ok
            /\ out.join_conditions
                  = [i \in 1..Len(joins) |->
                       [left_operand |-> joins[i].left_operand,
                        right_operand |-> joins[i].right_operand]]
            /\ Len(out.where_conditions) = Len(values)

\* the same, for the clauses without a decimal number after = and without
\* one relation on both sides of =
C25_ClassificationOfOthers ==
    (ParsedWhere /\ \A i \in 1..Len(input.conjuncts) :
                  input.conjuncts[i].text \notin {vRatingDecimal, vSameRelation, vByDecimal})
        => LET joins == ConjunctsOfKind(input.conjuncts, "join")
               values == ConjunctsOfKind(input.conjuncts, "value")
           IN  /\ out.ok
               /\ out.join_conditions
                     = [i \in 1..Len(joins) |->
                          [left_operand |-> joins[i].left_operand,
                           right_operand |-> joins[i].right_operand]]
               /\ Len(out.where_conditions) = Len(values)



-----------------------------------------------------------------------------
(* SelectConverter.convert on a list of attributes, and the WHERE block     *)
(* that _convert_select_query makes of its triples                          *)

\* the attributes a projection is made of
ProjectionPool ==
    {Attribute(lClient, kSubject, <<>>, <<>>),
     Attribute(lClient, kSubject, <<>>, <<kCOUNT>>),
     Attribute(lClient, aName, <<>>, <<>>),
     Attribute(lOrders, kSubject, <<>>, <<>>),
     Attribute(lOrders, <<"S","u","b","j","e","c","t">>, <<>>, <<>>),
     Attribute(lOrders, aStatus, <<>>, <<>>)}

\* how many attributes a projection has
MaxProjected == 3

Projections == UNION {[1..n -> ProjectionPool] : n \in 1..MaxProjected}

\* one call convert(attributes) of a new SelectConverter, and
\* _convert_select_query on a query that has these attributes only
DoSelectConvert ==
    /\ calls = 0
    /\ \E attributes \in Projections :
          \E r \in {SelectConvert(attributes)},
             q \in {ConvertSelectQuery([EmptyQuery(kSELECT) EXCEPT
                                           !.select_attributes = attributes],
                                       converter)} :
              /\ input' = [attributes |-> attributes]
              /\ out' = [ok |-> TRUE, path |-> "select_convert",
                         sparql_vars |-> r.sparql_vars, patterns |-> r.triple_patterns,
                         where_patterns |-> q.sparql.where_patterns]
              /\ converter' = q.inst
    /\ prev' = [input |-> input, out |-> out]
    /\ calls' = calls + 1

NextProjection == DoSelectConvert

SpecProjection == Init /\ [][NextProjection]_vars

SelectConverted == calls > 0 /\ out.path = "select_convert"

\* the places of the attributes that are the subject of the relation
SubjectProjections(attributes, relation) ==
    {i \in 1..Len(attributes) :
        attributes[i].relation = relation /\ Lower(attributes[i].name) = kSubject}

\* the places of the triples that say a subject is of the relation's type
TypeTriples(patterns, relation) ==
    {k \in 1..Len(patterns) :
        patterns[k].predicate = kRdfType /\ patterns[k].object = GetTypeUri(relation)}

\* C26: when the subject of a relation is projected, once or more often,
\* the triples that convert returns, and the WHERE block, have the triple
\* (subject variable, rdf:type, type of the relation) exactly once
C26_TypeTripleOnce ==
    SelectConverted =>
        \A relation \in {lClient, lOrders} :
            SubjectProjections(input.attributes, relation) # {} =>
                /\ Cardinality(TypeTriples(out.patterns, relation)) = 1
                /\ Cardinality(TypeTriples(out.where_patterns, relation)) = 1

\* the same, for the relations whose subject is projected once
C26_TypeTripleOfOneProjection ==
    SelectConverted =>
        \A relation \in {lClient, lOrders} :
            Cardinality(SubjectProjections(input.attributes, relation)) = 1 =>
                /\ Cardinality(TypeTriples(out.patterns, relation)) = 1
                /\ Cardinality(TypeTriples(out.where_patterns, relation)) = 1



-----------------------------------------------------------------------------
(* ExpressionBuilder.parse_expression and to_sparql_expression on an        *)
(* arithmetic expression                                                    *)

\* the operands of an expression, in the order in which it has them
OperandNames == <<(<<"a">>), (<<"b">>), (<<"c">>), (<<"d">>), (<<"e">>)>>

\* how many operands an expression without parentheses has
MaxOperands == 4

\* the number that an operand can stand for is in 1..MaxValue
MaxValue == 3

OperandLeaf(name) ==
    [type |-> "operand", value |-> [table |-> <<>>, column |-> name],
     left |-> NoNode, right |-> NoNode, arguments |-> <<>>]

OperatorOf(op, left, right) ==
    [type |-> "operator", value |-> op, left |-> left, right |-> right,
     arguments |-> <<>>]

\* operands[1] operators[1] operands[2] ... as SQL text
RECURSIVE FlatText(_, _)
FlatText(operands, operators) ==
    IF Len(operators) = 0 THEN operands[1]
    ELSE operands[1] \o <<" ", operators[1], " ">>
             \o FlatText(Tail(operands), Tail(operators))

\* the tree of the expression under the standard rules: the last + or -
\* is the root, and when there is none, the last * or /
RECURSIVE StandardTree(_, _)
StandardTree(operands, operators) ==
    IF Len(operators) = 0 THEN OperandLeaf(operands[1])
    ELSE LET additive == {k \in 1..Len(operators) : operators[k] \in {"+", "-"}}
             among == IF additive # {} THEN additive ELSE 1..Len(operators)
             k == CHOOSE x \in among : \A y \in among : y <= x
         IN  OperatorOf(operators[k],
                        StandardTree(SubSeq(operands, 1, k), SubSeq(operators, 1, k - 1)),
                        StandardTree(SubSeq(operands, k + 1, Len(operands)),
                                     SubSeq(operators, k + 1, Len(operators))))

\* the four operators
Operators == {ArithOps[k] : k \in 1..Len(ArithOps)}

OperatorLists == UNION {[1..(n - 1) -> Operators] : n \in 2..MaxOperands}

FlatInputs ==
    {[kind |-> "flat",
      text |-> FlatText(SubSeq(OperandNames, 1, Len(operators) + 1), operators),
      tree |-> StandardTree(SubSeq(OperandNames, 1, Len(operators) + 1), operators)] :
        operators \in OperatorLists}

InParens(text) == <<"(">> \o text \o <<")">>

\* the expressions with one or two parenthesis pairs, with the tree that
\* the pairs ask for
GroupedInputs ==
    LET ops == Operators
        ab(o) == FlatText(SubSeq(OperandNames, 1, 2), <<o>>)
        cd(o) == FlatText(SubSeq(OperandNames, 3, 4), <<o>>)
        bc(o) == FlatText(SubSeq(OperandNames, 2, 3), <<o>>)
        T(x, o, y) == OperatorOf(o, OperandLeaf(OperandNames[x]), OperandLeaf(OperandNames[y]))
    IN  {[kind |-> "grouped", text |-> InParens(ab(o)), tree |-> T(1, o, 2)] : o \in ops}
        \cup {[kind |-> "grouped",
               text |-> InParens(ab(o1)) \o <<" ", o, " ">> \o OperandNames[3],
               tree |-> OperatorOf(o, T(1, o1, 2), OperandLeaf(OperandNames[3]))] :
                  o1 \in ops, o \in ops}
        \cup {[kind |-> "grouped",
               text |-> OperandNames[1] \o <<" ", o, " ">> \o InParens(bc(o1)),
               tree |-> OperatorOf(o, OperandLeaf(OperandNames[1]), T(2, o1, 3))] :
                  o1 \in ops, o \in ops}
        \cup {[kind |-> "grouped",
               text |-> InParens(ab(o1)) \o <<" ", o, " ">> \o InParens(cd(o2)),
               tree |-> OperatorOf(o, T(1, o1, 2), T(3, o2, 4))] :
                  o1 \in ops, o \in ops, o2 \in ops}

\* one call parse_expression(text) of a new ExpressionBuilder, and
\* to_sparql_expression on the tree
DoParseExpression ==
    /\ calls = 0
    /\ \E e \in FlatInputs \cup GroupedInputs :
          \E tree \in {ParseExpression(e.text)} :
              /\ input' = e
              /\ out' = [ok |-> TRUE, path |-> "parse_expression", tree |-> tree,
                         text |-> ToSparqlExpression(tree, <<>>)]
    /\ prev' = [input |-> input, out |-> out]
    /\ calls' = calls + 1
    /\ UNCHANGED converter

NextExpression == DoParseExpression

SpecExpression == Init /\ [][NextExpression]_vars

ExpressionParsed == calls > 0 /\ out.path = "parse_expression"

\* what the operands stand for
Assignments == [{OperandNames[k] : k \in 1..Len(OperandNames)} -> 1..MaxValue]

\* the value of a tree as a fraction <<numerator, denominator>>
RECURSIVE ValueOf(_, _)
ValueOf(node, env) ==
    IF node.type = "operand" THEN <<env[node.value.column], 1>>
    ELSE LET l == ValueOf(node.left, env)
             r == ValueOf(node.right, env)
         IN  CASE node.value = "+" -> <<l[1] * r[2] + r[1] * l[2], l[2] * r[2]>>
               [] node.value = "-" -> <<l[1] * r[2] - r[1] * l[2], l[2] * r[2]>>
               [] node.value = "*" -> <<l[1] * r[1], l[2] * r[2]>>
               [] node.value = "/" -> <<l[1] * r[2], l[2] * r[1]>>

SameValue(x, y) == x[2] # 0 /\ y[2] # 0 /\ x[1] * y[2] = y[1] * x[2]

\* C27: the tree of an expression over + - * / without parentheses has,
\* for every assignment of numbers to the operands, the value that the
\* expression has under the standard rules (* and / before + and -, equal
\* precedence from the left)
C27_StandardValue ==
    (ExpressionParsed /\ input.kind = "flat") =>
        \A env \in Assignments :
            SameValue(ValueOf(out.tree, env), ValueOf(input.tree, env))

\* an expression whose tree is not the standard one and has its value all
\* the same
C27_OtherTreeSameValue ==
    /\ ExpressionParsed /\ input.kind = "flat"
    /\ out.tree # input.tree
    /\ \A env \in Assignments :
           SameValue(ValueOf(out.tree, env), ValueOf(input.tree, env))

\* the number of "(" in a text
ParenPairs(text) == Cardinality({i \in 1..Len(text) : text[i] = "("})

\* C28: parse_expression splits an expression only at an operator that is
\* outside every parenthesis pair of the text, and removes the outer
\* parentheses only when the first "(" is matched by the last ")": the tree
\* of (a + b) * (c + d) has the root * over the trees of a + b and c + d
C28_SplitOutsideParentheses ==
    (ExpressionParsed /\ input.kind = "grouped") => out.tree = input.tree

\* the same, for the expressions with one parenthesis pair
C28_OnePair ==
    (ExpressionParsed /\ input.kind = "grouped" /\ ParenPairs(input.text) = 1)
        => out.tree = input.tree

-----------------------------------------------------------------------------
(* What the claims say of the number of filters of a conjunction            *)

\* the filters of the query built that are on the column of the condition
FiltersOn(cond) ==
    {j \in 1..Len(out.filters) :
        \E v \in VariablesIn(out.filters[j]) : Contains(v, cond.column)}

\* C29: a WHERE that is a conjunction of m conditions (comparisons, LIKE,
\* IN, BETWEEN) gives m filters, one for each conjunct, also for the
\* conjuncts after a second BETWEEN
C29_NoConjunctLost ==
    (ConvertedWhere /\ input.connector = kAND) =>
        /\ Len(out.filters) = Len(input.conds)
        /\ \A i \in 1..Len(input.conds) : FiltersOn(input.conds[i]) # {}

\* the same, for the conjunctions with one BETWEEN at most
C29_NoConjunctLostOneBetween ==
    (ConvertedWhere /\ input.connector = kAND
        /\ Cardinality(CondsOfKind("between")) <= 1) =>
        /\ Len(out.filters) = Len(input.conds)
        /\ \A i \in 1..Len(input.conds) : FiltersOn(input.conds[i]) # {}

-----------------------------------------------------------------------------
(* _convert_select_query on a SELECT with ORDER BY on attributes that it    *)
(* projects, and the text of the query built                                *)

\* the attributes that are projected and ordered on
OrderedPool ==
    <<Attribute(lClient, aName, <<>>, <<>>),
      Attribute(lClient, aAge, <<>>, <<>>),
      Attribute(lClient, kSubject, <<>>, <<>>)>>

\* how many attributes the SELECT list has
MaxSelected == 2

\* how many items the ORDER BY has
MaxOrdered == 2

\* the SELECT lists: attributes of the pool, none twice
SelectedLists ==
    {s \in UNION {[1..n -> 1..Len(OrderedPool)] : n \in 1..MaxSelected} :
        \A i, j \in 1..Len(s) : s[i] = s[j] => i = j}

\* the ORDER BY lists of a SELECT list: places of the list, with a direction
OrderLists(selected) ==
    UNION {[1..n -> (1..Len(selected)) \X {kASC, kDESC}] : n \in 1..MaxOrdered}

\* one call _convert_select_query(sql_query, sparql_query) of a new converter,
\* and to_string on the query built
DoConvertOrder ==
    /\ calls = 0
    /\ \E selected \in SelectedLists :
          \E order \in OrderLists(selected) :
             \E q \in {ConvertSelectQuery(
                          [EmptyQuery(kSELECT) EXCEPT
                              !.select_attributes =
                                  [i \in 1..Len(selected) |-> OrderedPool[selected[i]]],
                              !.order_by =
                                  [i \in 1..Len(order) |->
                                      <<OrderedPool[selected[order[i][1]]], order[i][2]>>]],
                          converter)} :
                /\ input' = [selected |-> selected, order |-> order]
                /\ out' = [ok |-> TRUE, path |-> "order_by",
                           select_vars |-> q.sparql.select_vars,
                           order_by_vars |-> q.sparql.order_by_vars,
                           text |-> QueryToString(q.sparql)]
                /\ converter' = q.inst
    /\ prev' = [input |-> input, out |-> out]
    /\ calls' = calls + 1

NextOrder == DoConvertOrder

SpecOrder == Init /\ [][NextOrder]_vars

OrderConverted == calls > 0 /\ out.path = "order_by"

\* the ORDER BY entries that order on the projection variables of the
\* attributes ordered on
OrderOnProjected ==
    [i \in 1..Len(input.order) |->
        <<out.select_vars[input.order[i][1]], input.order[i][2]>>]

\* ORDER BY DIR(?v) ... of the entries
OrderLine(entries) ==
    lOrderBySp \o Join([i \in 1..Len(entries) |->
                           entries[i][2] \o <<"(">> \o entries[i][1] \o <<")">>], <<" ">>)

\* C30: ORDER BY on attributes that are projected orders on the projection
\* variable of each attribute, one entry per item in the order of the
\* items, each with the direction of its item
C30_OrderOnProjectionVariable ==
    OrderConverted =>
        /\ out.order_by_vars = OrderOnProjected
        /\ \E k \in 1..Len(LinesOf(out.text)) :
               LinesOf(out.text)[k] = OrderLine(OrderOnProjected)

\* the same, of the number of the entries and of their directions
C30_OrderEntriesAndDirections ==
    OrderConverted =>
        /\ Len(out.order_by_vars) = Len(input.order)
        /\ \A i \in 1..Len(input.order) : out.order_by_vars[i][2] = input.order[i][2]
        /\ \E k \in 1..Len(LinesOf(out.text)) :
               LinesOf(out.text)[k] = OrderLine(out.order_by_vars)

=============================================================================
